---- MODULE Spec2Model ----
(***************************************************************************)
(* A state-machine model of pytr's stateful core: the remote-control hub   *)
(* (web/routes/remote.py), the download tracker (web/routes/video.py),     *)
(* the extraction cache (web/helpers.py) and the auth / pairing tables     *)
(* (web/auth.py).  Each subsystem has its own specification over the       *)
(* shared variables; the variables of the other subsystems stay at their   *)
(* initial value.                                                          *)
(***************************************************************************)
EXTENDS Integers, Sequences, FiniteSets, TLC

(***************************************************************************)
(* Bounds of the model.                                                    *)
(***************************************************************************)
MaxConn == 3      \* websocket connection objects that ever exist
MaxMsgs == 2      \* hub messages handled in one behaviour
MaxDbOps == 1     \* session-store changes (profile select, logout) in one behaviour
MaxJobs == 2      \* download job records that are ever created
MaxThr == 2       \* threads calling get_video_info
MaxCalls == 2     \* get_video_info calls in one behaviour
MaxInfoTicks == 1 \* clock advances in one behaviour of the extraction cache
MaxCodes == 6     \* pairing codes generated in one behaviour
MaxPolled == 1    \* codes generated in a behaviour that polls, approves and denies codes
MaxPairTicks == 4 \* clock advances in one behaviour of the pairing tables
MaxAuthTicks == 6 \* clock advances in one behaviour of the lockout table
MaxLogins == 1    \* sessions created by successful logins
MaxPosMsgs == 5   \* state messages of the followed token in one behaviour
MaxOrdMsgs == 2          \* command messages the clients of the ordering scenario send
MaxOrdConn == 2          \* connections opened in the ordering scenario
MaxInbox == 2            \* messages waiting unread on one connection
MaxChunks == 2            \* chunks of an upstream body
MaxFmts == 3              \* formats in a resolver answer whose selection is compared across orderings
MaxDashReqs == 3          \* DASH manifest requests
MaxDashTicks == 2         \* clock advances between manifest requests
MaxPieces == 3            \* pieces a fetched byte string is put together from
MaxPosTicks == 2  \* clock advances in one behaviour of the position saves

(***************************************************************************)
(* Remote-control hub: values.                                             *)
(***************************************************************************)
Tokens == {"t1", "t2", "t3"}
Profiles == {1, 2}
NoTok == "none"          \* a missing cookie / a dict.get() that found nothing
NoConn == 0              \* _connections.get(token) is None
NoProfile == 0           \* session["profile_id"] is None
NoSession == -1          \* profiles_db.get_session(token) is None
NoEntry == -1            \* _token_to_profile.get(token) is None
ConnIds == 1..MaxConn

\* Player states a device reports: the empty dict, and two videos being played.
EmptyState == [videoId |-> "", currentTime |-> 0]
NoState == [videoId |-> "absent", currentTime |-> 0]
StateVals == {EmptyState, [videoId |-> "v1", currentTime |-> 10], [videoId |-> "v2", currentTime |-> 10]}

\* _device_id_from_token: a truncated sha256 of the token; distinct tokens of the
\* model have distinct device ids.
_device_id_from_token(t) == CASE t = "t1" -> "d1" [] t = "t2" -> "d2" [] t = "t3" -> "d3" [] OTHER -> "d?"
DeviceIds == {"d1", "d2", "d3", "dx"}

NoLoc == [tgt |-> NoTok, old |-> NoTok, todo |-> <<>>, idx |-> 0, n |-> 0, left |-> 0, st |-> NoState,
          owed |-> {}, sent |-> {}]

VARIABLES
    sessions,               \* profiles_db sessions: token -> profile id, NoProfile or NoSession
    wsPc, wsTok, wsPid,     \* per connection object: position in websocket_endpoint, its token, profile_id read
    wsLoc,                  \* per connection object: locals of the suspended handler
    _connections,           \* token -> connection object (NoConn: absent)
    _device_states,         \* token -> latest player state (NoState: absent)
    _pairings,              \* insertion-ordered dict remote -> target, as a sequence of <<remote, target>>;
                            \* a popped entry leaves a hole while a fan-out iterates over the dict
    _token_to_profile,      \* token -> profile id (NoEntry: absent)
    _token_to_name,         \* tokens with a cached device name
    _last_position_save,    \* tokens with a last-save timestamp
    out,                    \* messages sent and lines logged by the last step
    nMsgs, nDbOps,          \* budget counters of the model
    \* ---- download tracker (web/routes/video.py)
    active_downloads,       \* video id -> job record (NoJob: not tracked); records are named by a job id
    jobs,                   \* job id -> the record's fields: status, progress, process handle
    dlPc, dlVid, dlPhase,   \* per download() task: position, video id, is_video_phase
    proc,                   \* per download() task: its yt-dlp subprocess
    files,                  \* video ids whose DOWNLOADS_DIR/<id>.mp4 exists
    cnPc, cnJob,            \* per video id: a cancel_download call waiting for the process, the record it holds
    resp,                   \* response of the request handled by the last step
    nJobs, created, launched, expired,  \* counters: records made, subprocess launches, records popped
    dlLeft,                 \* per download task: seconds left of the sleep before the record is popped
    \* ---- extraction cache (web/helpers.py)
    _info_cache,            \* video id -> cache entry (kind "none": absent)
    _info_lock,             \* the thread holding _info_lock (NoThr: free)
    _throttled_until,       \* end of the global throttle cooldown
    ydl_info_auth,          \* TRUE iff the cookie-authenticated instance exists
    tPc, tLoc,              \* per thread: position in get_video_info, its arguments and locals
    tOver,                  \* per thread: outcome stored for its id by another call since it started
    ageFailed,              \* video ids whose anonymous attempt (auto, cookies at hand) failed age-restricted
    infoRet,                \* what the get_video_info call ended by the last step returned or raised
    nCalls,                 \* get_video_info calls made
    \* ---- device pairing (web/auth.py)
    PAIRING_REQUESTS,       \* code -> request (NoReq: absent)
    PAIRING_RATE,           \* ip -> list of timestamps (absent = empty)
    pairSessions,           \* codes whose bound session is in the session store
    delivered,              \* codes whose session token was set as a cookie
    pairOk,                 \* ip -> times of the pair_request calls that succeeded
    pairResp,               \* response of the pairing request handled by the last step
    nCodes,                 \* codes generated
    \* ---- login lockout (web/auth.py)
    AUTH_FAILURES,          \* ip -> failure record (NoRec: absent)
    authResp,               \* outcome of the login handled by the last step
    nSessions,              \* sessions that logins have created (each with its cookie)
    \* ---- playback position persistence (web/routes/remote.py), one token followed
    posProfile,             \* _token_to_profile.get(token) (NoEntry: absent)
    posState,               \* _device_states.get(token) with its times (NoPosState: absent)
    posLast,                \* _last_position_save.get(token) (NoSave: absent)
    positions,              \* profiles_db: video id -> position saved for the session's profile (NoPos: none)
    saved,                  \* the save_position calls of the last step, in order; kinds: "flush" (old
                            \* state of a video change), "changed", "routine" (same video id as the
                            \* state before), "started" (no video id before), "final" (disconnect)
    lastRoutine,            \* when this connection last persisted a routine save (NoSave: never)
    nPosMsgs,               \* state messages handled
    \* ---- the hub's connections seen from the clients (web/routes/remote.py)
    inbox,                  \* per connection object: messages the client sent that receive_json has not returned yet
    forwarded,              \* the commands forwarded so far, in order: reading connection and message number
    nOrd,                   \* messages sent by clients, numbered in sending order
    \* ---- range proxy (web/app.py), per request
    pxPc,                   \* position in _proxy_range_request / stream_body
    pxRange,                \* upstream_headers: the Range header sent upstream ("": none)
    client, upstream,       \* the httpx client and the upstream response: "none", "open" or "closed"
    pxUp,                   \* what upstream answered: status code, failure, body chunks not read yet
    pxOut,                  \* what the client got: response status, error status, body chunks
    \* ---- DASH manifests (web/app.py)
    formats,                \* info['formats'] as the resolver returns it
    selected,               \* the formats picked from `formats` (NoSel: nothing picked yet)
    _dash_cache,            \* video id -> cached manifest and its creation time (NoMpd: absent)
    dPc, dLoc,              \* per request: position in get_dash_manifest, its arguments and locals
    dashResp,               \* response of the request the last step answered
    builds,                 \* the manifests built so far: video id, text, time of the build
    nDash,                  \* requests made
    \* ---- profile store and the two access gates (web/auth.py, web/routes/profiles.py)
    profiles,               \* profile id -> row of the profiles table (NoRow: no such profile)
    app_password,           \* the app password (<<>>: None, not set yet)
    pSessions,              \* session token -> profile id of the session row (NoSession: no row)
    pResp,                  \* response of the request the last step handled
    \* ---- MP4 box parser (web/app.py)
    mp4Data,                   \* the fetched bytes
    offset, boxes,          \* _parse_mp4_boxes: locals of the first loop
    mp4Pc,                  \* "idle", "loop" (first loop), "collect" (second loop), "done"
    result,                 \* the dict returned (NoKey: key absent)
    \* ---- wall clock
    now, nTicks             \* time.time(), and how often the model advanced it

hubVars == <<sessions, wsPc, wsTok, wsPid, wsLoc, _connections, _device_states, _pairings,
             _token_to_profile, _token_to_name, _last_position_save, out, nMsgs, nDbOps>>

dlVars == <<active_downloads, jobs, dlPc, dlVid, dlPhase, proc, files, cnPc, cnJob, resp,
            nJobs, created, launched, expired, dlLeft>>

infoVars == <<_info_cache, _info_lock, _throttled_until, ydl_info_auth, tPc, tLoc, tOver,
              ageFailed, infoRet, nCalls>>

pairVars == <<PAIRING_REQUESTS, PAIRING_RATE, pairSessions, delivered, pairOk, pairResp, nCodes>>

authVars == <<AUTH_FAILURES, authResp, nSessions>>

posVars == <<posProfile, posState, posLast, positions, saved, lastRoutine, nPosMsgs>>

ordVars == <<inbox, forwarded, nOrd>>

pxVars == <<pxPc, pxRange, client, upstream, pxUp, pxOut>>

dashVars == <<formats, selected, _dash_cache, dPc, dLoc, dashResp, builds, nDash>>

profVars == <<profiles, app_password, pSessions, pResp>>

mp4Vars == <<mp4Data, offset, boxes, mp4Pc, result>>

timeVars == <<now, nTicks>>

vars == <<hubVars, dlVars, infoVars, pairVars, authVars, posVars, ordVars, pxVars, dashVars, profVars, mp4Vars, timeVars>>

\* What the steps of one subsystem leave alone (the clock apart, for the
\* subsystems that read it; the clients' queues apart, for the hub).
nonHub == <<dlVars, infoVars, pairVars, authVars, posVars, pxVars, dashVars, profVars, mp4Vars, timeVars>>
nonDl == <<hubVars, infoVars, pairVars, authVars, posVars, ordVars, pxVars, dashVars, profVars, mp4Vars, timeVars>>
nonInfo == <<hubVars, dlVars, pairVars, authVars, posVars, ordVars, pxVars, dashVars, profVars, mp4Vars>>
nonPair == <<hubVars, dlVars, infoVars, authVars, posVars, ordVars, pxVars, dashVars, profVars, mp4Vars>>
nonAuth == <<hubVars, dlVars, infoVars, pairVars, posVars, ordVars, pxVars, dashVars, profVars, mp4Vars>>
nonPx == <<hubVars, dlVars, infoVars, pairVars, authVars, posVars, ordVars, dashVars, profVars, mp4Vars, timeVars>>
nonDash == <<hubVars, dlVars, infoVars, pairVars, authVars, posVars, ordVars, pxVars, profVars, mp4Vars>>
nonProf == <<hubVars, dlVars, infoVars, pairVars, authVars, posVars, ordVars, pxVars, dashVars, mp4Vars, timeVars>>
nonMp4 == <<hubVars, dlVars, infoVars, pairVars, authVars, posVars, ordVars, pxVars, dashVars, profVars, timeVars>>
nonPos == <<hubVars, dlVars, infoVars, pairVars, authVars, ordVars, pxVars, dashVars, profVars, mp4Vars>>

\* A message sent (or a line logged, to = NoConn) by the coroutine of connection
\* object c, which runs for token wsTok[c].
Send(c, to, type, st) == [by |-> c, tok |-> wsTok[c], to |-> to, type |-> type, st |-> st]

\* dict operations on _pairings.  The dict keeps its entries in insertion order
\* and pop leaves a dummy entry in place, which only an iterator that is under
\* way can notice: the holes are kept while some _handle_state is suspended in
\* its loop over _pairings.items(), and dropped otherwise.
Tomb == <<NoTok, NoTok>>
Iterating == \E c \in ConnIds : wsPc[c] = "state_fwd"
Live(p) == SelectSeq(p, LAMBDA e : e # Tomb)
Used(p) == Len(Live(p))
PairGet(p, r) == IF \E i \in 1..Len(p) : p[i][1] = r THEN p[CHOOSE i \in 1..Len(p) : p[i][1] = r][2] ELSE NoTok
PairPop(p, r) ==
    IF Iterating THEN [i \in 1..Len(p) |-> IF p[i][1] = r THEN Tomb ELSE p[i]]
    ELSE SelectSeq(p, LAMBDA e : e[1] # r /\ e # Tomb)
PairSet(p, r, t) == IF \E i \in 1..Len(p) : p[i][1] = r THEN [i \in 1..Len(p) |-> IF p[i][1] = r THEN <<r, t>> ELSE p[i]] ELSE Append(p, <<r, t>>)
\* The dict when connection c is done with it: without its holes, unless another
\* connection's fan-out is under way.
Settled(c, p) == IF \E d \in ConnIds \ {c} : wsPc[d] = "state_fwd" THEN p ELSE Live(p)
PairRemotes(p) == {p[i][1] : i \in 1..Len(p)} \ {NoTok}
PairTargets(p) == {p[i][2] : i \in 1..Len(p)} \ {NoTok}

HubInit ==
    /\ sessions = [t \in Tokens |-> IF t = "t3" THEN 2 ELSE 1]
    /\ wsPc = [c \in ConnIds |-> "new"]
    /\ wsTok = [c \in ConnIds |-> NoTok]
    /\ wsPid = [c \in ConnIds |-> NoProfile]
    /\ wsLoc = [c \in ConnIds |-> NoLoc]
    /\ _connections = [t \in Tokens |-> NoConn]
    /\ _device_states = [t \in Tokens |-> NoState]
    /\ _pairings = <<>>
    /\ _token_to_profile = [t \in Tokens |-> NoEntry]
    /\ _token_to_name = {}
    /\ _last_position_save = {}
    /\ out = {}
    /\ nMsgs = 0
    /\ nDbOps = 0

(***************************************************************************)
(* Session store operations used around the hub.                           *)
(***************************************************************************)
\* select_profile: db.set_session_profile(token, profile_id)
SelectProfile(t, p) ==
    /\ nDbOps < MaxDbOps
    /\ sessions[t] # NoSession
    /\ sessions[t] # p
    /\ sessions' = [sessions EXCEPT ![t] = p]
    /\ nDbOps' = nDbOps + 1
    /\ out' = {}
    /\ UNCHANGED <<wsPc, wsTok, wsPid, wsLoc, _connections, _device_states, _pairings,
                   _token_to_profile, _token_to_name, _last_position_save, nMsgs>>
    /\ UNCHANGED nonHub

\* logout: profiles_db.delete_session(token)
Logout(t) ==
    /\ nDbOps < MaxDbOps
    /\ sessions[t] # NoSession
    /\ sessions' = [sessions EXCEPT ![t] = NoSession]
    /\ nDbOps' = nDbOps + 1
    /\ out' = {}
    /\ UNCHANGED <<wsPc, wsTok, wsPid, wsLoc, _connections, _device_states, _pairings,
                   _token_to_profile, _token_to_name, _last_position_save, nMsgs>>
    /\ UNCHANGED nonHub

\* delete_profile: db.clear_profile_from_sessions(profile_id)
DeleteProfile(p) ==
    /\ nDbOps < MaxDbOps
    /\ \E t \in Tokens : sessions[t] = p /\ t # "t3"
    /\ sessions' = [t \in Tokens |-> IF sessions[t] = p THEN NoProfile ELSE sessions[t]]
    /\ nDbOps' = nDbOps + 1
    /\ out' = {}
    /\ UNCHANGED <<wsPc, wsTok, wsPid, wsLoc, _connections, _device_states, _pairings,
                   _token_to_profile, _token_to_name, _last_position_save, nMsgs>>
    /\ UNCHANGED nonHub

(***************************************************************************)
(* websocket_endpoint: admission and registration.                         *)
(***************************************************************************)
\* Lines 50-57: no cookie, no stored session, or a session without a profile.
RefusedMut(cookie) == cookie = NoTok \/ sessions[cookie] = NoSession
Refused(cookie) == cookie = NoTok \/ sessions[cookie] = NoSession \/ sessions[cookie] = NoProfile

\* Lines 50-64: the cookie and session checks, up to `await websocket.accept()`.
\* Connection objects are created in order, so that c is a fresh object.
WsConnect(c, cookie) ==
    /\ wsPc[c] = "new"
    /\ \A d \in ConnIds : d < c => wsPc[d] # "new"
    /\ IF Refused(cookie)
         THEN /\ wsPc' = [wsPc EXCEPT ![c] = "closed"]
              /\ out' = {[by |-> c, tok |-> cookie, to |-> c, type |-> "close4001", st |-> NoState]}
              /\ UNCHANGED <<wsTok, wsPid>>
         ELSE /\ wsPc' = [wsPc EXCEPT ![c] = "accepting"]
              /\ wsTok' = [wsTok EXCEPT ![c] = cookie]
              /\ wsPid' = [wsPid EXCEPT ![c] = sessions[cookie]]
              /\ out' = {}
    /\ UNCHANGED <<sessions, wsLoc, _connections, _device_states, _pairings,
                   _token_to_profile, _token_to_name, _last_position_save, nMsgs, nDbOps>>
    /\ UNCHANGED nonHub

\* profiles_db.get_online_sessions(profile_id) lists the sessions bound to the
\* profile: does it list the token?
OnlineListed(t, p) == sessions[t] = p

\* Lines 66-78, after accept() returned: register the connection, cache the name
\* when get_online_sessions lists the token.
WsRegister(c) ==
    /\ wsPc[c] = "accepting"
    /\ _connections' = [_connections EXCEPT ![wsTok[c]] = c]
    /\ _token_to_profile' = [_token_to_profile EXCEPT ![wsTok[c]] = wsPid[c]]
    /\ _token_to_name' = IF OnlineListed(wsTok[c], wsPid[c])
                            THEN _token_to_name \cup {wsTok[c]} ELSE _token_to_name
    /\ wsPc' = [wsPc EXCEPT ![c] = "open"]
    /\ out' = {}
    /\ UNCHANGED <<sessions, wsTok, wsPid, wsLoc, _device_states, _pairings,
                   _last_position_save, nMsgs, nDbOps>>
    /\ UNCHANGED nonHub

(***************************************************************************)
(* _save_position_from_state, as far as the hub tables go: the tokens with *)
(* a last-save timestamp after the call.  A token without a timestamp is   *)
(* never throttled (last_save defaults to 0); a throttled call leaves the  *)
(* existing timestamp in place.                                            *)
(***************************************************************************)
SavedTokens(ls, prof, t, st) ==
    IF prof[t] = NoEntry \/ prof[t] = NoProfile THEN ls
    ELSE IF st.videoId = "" \/ st.currentTime = 0 THEN ls
    ELSE ls \cup {t}

(***************************************************************************)
(* _cleanup_connection.                                                    *)
(***************************************************************************)
\* Lines 117-129, from the loop over remotes_to_notify to the next awaited send
\* (or to the end): the pairing table, the remotes left and the message sent.
RECURSIVE CleanupRun(_, _, _, _, _)
CleanupRun(c, tok, conns, pr, todo) ==
    IF todo = <<>>
      THEN LET tgt == PairGet(pr, tok) IN
           [pr |-> PairPop(pr, tok), todo |-> <<>>, done |-> TRUE,
            out |-> IF tgt # NoTok /\ conns[tgt] # NoConn
                      THEN {Send(c, conns[tgt], "remote_disconnected", NoState)} ELSE {}]
      ELSE LET r == Head(todo) IN
           IF conns[r] # NoConn
             THEN [pr |-> PairPop(pr, r), todo |-> Tail(todo), done |-> FALSE,
                   out |-> {Send(c, conns[r], "target_disconnected", NoState)}]
             ELSE CleanupRun(c, tok, conns, PairPop(pr, r), Tail(todo))

\* websocket_endpoint returns: the connection object and its locals are gone.
\* While _cleanup_connection is suspended the object keeps its token.
WsEnd(c, done, todo) ==
    /\ wsPc' = [wsPc EXCEPT ![c] = IF done THEN "closed" ELSE "cleanup"]
    /\ wsTok' = [wsTok EXCEPT ![c] = IF done THEN NoTok ELSE wsTok[c]]
    /\ wsPid' = [wsPid EXCEPT ![c] = IF done THEN NoProfile ELSE wsPid[c]]
    /\ wsLoc' = [wsLoc EXCEPT ![c] = [NoLoc EXCEPT !.todo = todo]]

\* Line 98: is the registered connection still the one that disconnected?
ReplacedMut(tok, old_ws) == _connections[tok] = NoConn
Replaced(tok, old_ws) == _connections[tok] # old_ws

\* Lines 98-129 up to the first awaited send.
CleanupStart(c) ==
    LET tok == wsTok[c] IN
    IF Replaced(tok, c)
      THEN /\ WsEnd(c, TRUE, <<>>)
           /\ out' = {Send(c, NoConn, "log_replaced", NoState)}
           /\ UNCHANGED <<_connections, _device_states, _pairings, _token_to_profile,
                          _token_to_name, _last_position_save>>
      ELSE LET conns == [_connections EXCEPT ![tok] = NoConn]
               remotes == SelectSeq(_pairings, LAMBDA e : e[2] = tok)
               todo == [i \in 1..Len(remotes) |-> remotes[i][1]]
               run == CleanupRun(c, tok, conns, _pairings, todo)
           IN /\ _connections' = conns
              /\ _device_states' = [_device_states EXCEPT ![tok] = NoState]
              /\ _token_to_profile' = [_token_to_profile EXCEPT ![tok] = NoEntry]
              /\ _token_to_name' = _token_to_name \ {tok}
              /\ _last_position_save' = _last_position_save \ {tok}
              /\ _pairings' = Settled(c, run.pr)
              /\ out' = run.out
              /\ WsEnd(c, run.done, run.todo)

\* Lines 84-89: receive_json raises WebSocketDisconnect, the finally block runs
\* _cleanup_connection.
WsDisconnect(c) ==
    /\ wsPc[c] = "open"
    /\ CleanupStart(c)
    /\ UNCHANGED <<sessions, nMsgs, nDbOps>>
    /\ UNCHANGED nonHub

\* _cleanup_connection resumed after an awaited send.
WsCleanupResume(c) ==
    /\ wsPc[c] = "cleanup"
    /\ LET run == CleanupRun(c, wsTok[c], _connections, _pairings, wsLoc[c].todo) IN
        /\ _pairings' = run.pr
        /\ out' = run.out
        /\ WsEnd(c, run.done, run.todo)
    /\ UNCHANGED <<sessions, _connections, _device_states, _token_to_profile,
                   _token_to_name, _last_position_save, nMsgs, nDbOps>>
    /\ UNCHANGED nonHub

(***************************************************************************)
(* Message handlers.  Every `await _send_json` that is followed by more    *)
(* code is a point where other coroutines may run.                         *)
(***************************************************************************)
\* _handle_pair lines 182-186: notify the target.
PairNotifyTarget(c, tgt) ==
    /\ out' = IF _connections[tgt] # NoConn
                THEN {Send(c, _connections[tgt], "remote_connected", NoState)} ELSE {}
    /\ wsPc' = [wsPc EXCEPT ![c] = "open"]
    /\ wsLoc' = [wsLoc EXCEPT ![c] = NoLoc]

\* _handle_pair lines 169-180: record the pairing, tell the remote.  `old` is
\* the previous target when the handler notified one on its way (NoTok otherwise).
PairRecord(c, tgt, old) ==
    LET remote == wsTok[c] IN
    /\ _pairings' = PairSet(_pairings, remote, tgt)
    /\ IF _connections[remote] # NoConn
         THEN /\ out' = {Send(c, _connections[remote], "paired", _device_states[tgt])}
              /\ wsPc' = [wsPc EXCEPT ![c] = "pair_notified"]
              /\ wsLoc' = [wsLoc EXCEPT ![c] = [NoLoc EXCEPT !.tgt = tgt, !.old = old]]
         ELSE PairNotifyTarget(c, tgt)

\* _handle_pair lines 147-154: the connected token of the remote's profile with
\* the requested device id.
PairMatch(remote, device_id) ==
    LET m == {t \in Tokens : /\ _connections[t] # NoConn
                             /\ _token_to_profile[t] = _token_to_profile[remote]
                             /\ _device_id_from_token(t) = device_id}
    IN IF m = {} THEN NoTok ELSE CHOOSE t \in m : TRUE

\* _handle_pair lines 145-167.
HubPair(c, device_id) ==
    /\ wsPc[c] = "open"
    /\ nMsgs < MaxMsgs
    /\ nMsgs' = nMsgs + 1
    /\ LET remote == wsTok[c]
           tgt == PairMatch(remote, device_id)
           old == PairGet(_pairings, remote)
       IN IF tgt = NoTok
            THEN /\ out' = IF _connections[remote] # NoConn
                             THEN {Send(c, _connections[remote], "error", NoState)} ELSE {}
                 /\ UNCHANGED <<wsPc, wsLoc, _pairings>>
            ELSE IF old # NoTok /\ old # tgt /\ _connections[old] # NoConn
                   THEN /\ out' = {Send(c, _connections[old], "remote_disconnected", NoState)}
                        /\ wsPc' = [wsPc EXCEPT ![c] = "pair_unpaired"]
                        /\ wsLoc' = [wsLoc EXCEPT ![c] = [NoLoc EXCEPT !.tgt = tgt, !.old = old]]
                        /\ UNCHANGED _pairings
                   ELSE PairRecord(c, tgt, NoTok)
    /\ UNCHANGED <<sessions, wsTok, wsPid, _connections, _device_states, _token_to_profile,
                   _token_to_name, _last_position_save, nDbOps>>
    /\ UNCHANGED nonHub

HubPairResume1(c) ==
    /\ wsPc[c] = "pair_unpaired"
    /\ PairRecord(c, wsLoc[c].tgt, wsLoc[c].old)
    /\ UNCHANGED <<sessions, wsTok, wsPid, _connections, _device_states, _token_to_profile,
                   _token_to_name, _last_position_save, nMsgs, nDbOps>>
    /\ UNCHANGED nonHub

HubPairResume2(c) ==
    /\ wsPc[c] = "pair_notified"
    /\ PairNotifyTarget(c, wsLoc[c].tgt)
    /\ UNCHANGED <<sessions, wsTok, wsPid, _connections, _device_states, _pairings,
                   _token_to_profile, _token_to_name, _last_position_save, nMsgs, nDbOps>>
    /\ UNCHANGED nonHub

\* _handle_unpair lines 189-194.
HubUnpair(c) ==
    /\ wsPc[c] = "open"
    /\ nMsgs < MaxMsgs
    /\ nMsgs' = nMsgs + 1
    /\ LET tgt == PairGet(_pairings, wsTok[c]) IN
        /\ _pairings' = PairPop(_pairings, wsTok[c])
        /\ out' = IF tgt # NoTok /\ _connections[tgt] # NoConn
                    THEN {Send(c, _connections[tgt], "remote_disconnected", NoState)} ELSE {}
    /\ UNCHANGED <<sessions, wsPc, wsTok, wsPid, wsLoc, _connections, _device_states,
                   _token_to_profile, _token_to_name, _last_position_save, nDbOps>>
    /\ UNCHANGED nonHub

\* _handle_command lines 205-206: the paired target has no connection.
TargetGoneMut(tgt) == FALSE
TargetGone(tgt) == _connections[tgt] = NoConn

\* _handle_command lines 197-214.
_handle_command(c) ==
    /\ wsPc[c] = "open"
    /\ LET remote == wsTok[c]
           tgt == PairGet(_pairings, remote)
       IN IF tgt = NoTok
            THEN /\ out' = IF _connections[remote] # NoConn
                             THEN {Send(c, _connections[remote], "error", NoState)} ELSE {}
                 /\ UNCHANGED _pairings
            ELSE IF TargetGone(tgt)
                   THEN /\ _pairings' = PairPop(_pairings, remote)
                        /\ out' = IF _connections[remote] # NoConn
                                    THEN {Send(c, _connections[remote], "target_disconnected", NoState)}
                                    ELSE {}
                   ELSE /\ out' = {Send(c, _connections[tgt], "command", NoState)}
                        /\ UNCHANGED _pairings
    /\ UNCHANGED <<sessions, wsPc, wsTok, wsPid, wsLoc, _connections, _device_states,
                   _token_to_profile, _token_to_name, _last_position_save, nDbOps>>
    /\ UNCHANGED nonHub

\* A command message, counted in the budget of hub messages.
HubCommand(c) ==
    /\ nMsgs < MaxMsgs
    /\ nMsgs' = nMsgs + 1
    /\ _handle_command(c)

\* _handle_state lines 232-236 from dict position `from` on: the position of the
\* next pairing that names the sender as target and whose remote is connected
\* (0: none).
NextFanout(sender, from) ==
    LET hits == {i \in from..Len(_pairings) :
                    _pairings[i][2] = sender /\ _connections[_pairings[i][1]] # NoConn}
    IN IF hits = {} THEN 0 ELSE CHOOSE i \in hits : \A j \in hits : i <= j

\* The entries the dict iterator yields on its way from position `from` to
\* position i (to the end of the dict when i = 0).
Yielded(from, i) ==
    Cardinality({j \in from..(IF i = 0 THEN Len(_pairings) ELSE i) : _pairings[j] # Tomb})

\* The loop over _pairings.items() raises RuntimeError: the dict has another
\* size than when the loop started (checked on every advance), or the iterator
\* is about to yield more entries than the dict had then.
IterationBreaks(sender, from, n, left) ==
    \/ Used(_pairings) # n
    \/ Yielded(from, NextFanout(sender, from)) > left

\* The remotes a state message of connection c is owed to: the connected
\* remotes whose pairing names c's token as target.
Owed(c) == {r \in Tokens : _connections[r] # NoConn /\ PairGet(_pairings, r) = wsTok[c]}

\* Lines 232-236 from dict position `from` up to the next awaited send, `left`
\* being the number of entries the iterator may still yield.
StateFanout(c, st, from, left, owed, sent) ==
    LET i == NextFanout(wsTok[c], from) IN
    IF i = 0
      THEN /\ out' = {}
           /\ wsPc' = [wsPc EXCEPT ![c] = "open"]
           /\ wsLoc' = [wsLoc EXCEPT ![c] = NoLoc]
      ELSE /\ out' = {Send(c, _connections[_pairings[i][1]], "state", st)}
           /\ wsPc' = [wsPc EXCEPT ![c] = "state_fwd"]
           /\ wsLoc' = [wsLoc EXCEPT ![c] = [NoLoc EXCEPT !.idx = i + 1, !.n = Used(_pairings),
                                                         !.left = left - Yielded(from, i), !.st = st,
                                                         !.owed = owed, !.sent = sent \cup {_pairings[i][1]}]]

\* _handle_state lines 217-236 up to the first awaited send.
_handle_state(c, st) ==
    /\ wsPc[c] = "open"
    /\ LET tok == wsTok[c]
           old == _device_states[tok]
           flushed == IF old # NoState /\ old # EmptyState /\ old.videoId # "" /\ old.videoId # st.videoId
                        THEN SavedTokens(_last_position_save \ {tok}, _token_to_profile, tok, old)
                        ELSE _last_position_save
       IN /\ _device_states' = [_device_states EXCEPT ![tok] = st]
          /\ _last_position_save' = SavedTokens(flushed, _token_to_profile, tok, st)
    /\ StateFanout(c, st, 1, Used(_pairings), Owed(c), {})
    /\ UNCHANGED <<sessions, wsTok, wsPid, _connections, _pairings, _token_to_profile,
                   _token_to_name, nDbOps>>
    /\ UNCHANGED nonHub

\* A state message, counted in the budget of hub messages.
HubState(c, st) ==
    /\ nMsgs < MaxMsgs
    /\ nMsgs' = nMsgs + 1
    /\ _handle_state(c, st)

\* _handle_state resumed after an awaited send.  A RuntimeError of the dict
\* iterator ends the connection's read loop and runs _cleanup_connection
\* (lines 86-89).
HubStateResume(c) ==
    /\ wsPc[c] = "state_fwd"
    /\ IF IterationBreaks(wsTok[c], wsLoc[c].idx, wsLoc[c].n, wsLoc[c].left)
         THEN CleanupStart(c)
         ELSE /\ StateFanout(c, wsLoc[c].st, wsLoc[c].idx, wsLoc[c].left, wsLoc[c].owed, wsLoc[c].sent)
              /\ _pairings' = IF NextFanout(wsTok[c], wsLoc[c].idx) = 0
                                 THEN Settled(c, _pairings) ELSE _pairings
              /\ UNCHANGED <<wsTok, wsPid, _connections, _device_states,
                             _token_to_profile, _token_to_name, _last_position_save>>
    /\ UNCHANGED <<sessions, nMsgs, nDbOps>>
    /\ UNCHANGED nonHub

\* The hub's steps for devices holding the session tokens `toks`.
HubNextOver(toks) ==
    \/ \E t \in toks, p \in Profiles : SelectProfile(t, p) /\ UNCHANGED ordVars
    \/ \E t \in toks : Logout(t) /\ UNCHANGED ordVars
    \/ \E p \in Profiles : DeleteProfile(p) /\ UNCHANGED ordVars
    \/ \E c \in ConnIds, k \in toks \cup {NoTok} : WsConnect(c, k) /\ UNCHANGED ordVars
    \/ \E c \in ConnIds : WsRegister(c) /\ UNCHANGED ordVars
    \/ \E c \in ConnIds : WsDisconnect(c) /\ UNCHANGED ordVars
    \/ \E c \in ConnIds : WsCleanupResume(c) /\ UNCHANGED ordVars
    \/ \E c \in ConnIds, d \in {_device_id_from_token(t) : t \in toks} \cup {"dx"} : HubPair(c, d) /\ UNCHANGED ordVars
    \/ \E c \in ConnIds : HubPairResume1(c) /\ UNCHANGED ordVars
    \/ \E c \in ConnIds : HubPairResume2(c) /\ UNCHANGED ordVars
    \/ \E c \in ConnIds : HubUnpair(c) /\ UNCHANGED ordVars
    \/ \E c \in ConnIds : HubCommand(c) /\ UNCHANGED ordVars
    \/ \E c \in ConnIds, st \in StateVals : HubState(c, st) /\ UNCHANGED ordVars
    \/ \E c \in ConnIds : HubStateResume(c) /\ UNCHANGED ordVars

\* Two devices of one profile, reconnects and profile switches.
HubNext == HubNextOver({"t1", "t2"})

\* The pairing traffic of the same two devices: connects, disconnects, pair and
\* unpair messages within the budget, and command messages at any time.
CmdNext ==
    \/ \E c \in ConnIds, k \in {"t1", "t2"} : WsConnect(c, k) /\ UNCHANGED ordVars
    \/ \E c \in ConnIds : WsRegister(c) /\ UNCHANGED ordVars
    \/ \E c \in ConnIds : WsDisconnect(c) /\ UNCHANGED ordVars
    \/ \E c \in ConnIds : WsCleanupResume(c) /\ UNCHANGED ordVars
    \/ \E c \in ConnIds, d \in {_device_id_from_token(t) : t \in {"t1", "t2"}} : HubPair(c, d) /\ UNCHANGED ordVars
    \/ \E c \in ConnIds : HubPairResume1(c) /\ UNCHANGED ordVars
    \/ \E c \in ConnIds : HubPairResume2(c) /\ UNCHANGED ordVars
    \/ \E c \in ConnIds : HubUnpair(c) /\ UNCHANGED ordVars
    \/ \E c \in ConnIds : _handle_command(c) /\ UNCHANGED <<nMsgs, ordVars>>


(***************************************************************************)
(* The read loop of websocket_endpoint, seen from the clients: a client    *)
(* may send at any time, the socket queues what it sent, and the loop      *)
(* takes the messages off the queue one by one.  The clients of this       *)
(* scenario send pair, unpair and command messages.                        *)
(***************************************************************************)
NoDev == ""
PairMsgs == [type : {"pair"}, dev : {"d1", "d2"}, no : {0}] \cup [type : {"unpair"}, dev : {NoDev}, no : {0}]
CmdMsg(n) == [type |-> "command", dev |-> NoDev, no |-> n]

OrdInit ==
    /\ inbox = [c \in ConnIds |-> <<>>]
    /\ forwarded = <<>>
    /\ nOrd = 0

\* Pair and unpair messages waiting on the sockets.
RECURSIVE Waiting(_)
Waiting(cs) ==
    IF cs = {} THEN 0
    ELSE LET c == CHOOSE x \in cs : TRUE IN
         Len(SelectSeq(inbox[c], LAMBDA e : e.type # "command")) + Waiting(cs \ {c})

\* The client of connection c sends a message while its connection is up:
\* its next command, numbered in sending order, or a pair or unpair message.
ClientSend(c, m) ==
    /\ wsPc[c] \in {"open", "pair_unpaired", "pair_notified"}
    /\ Len(inbox[c]) < MaxInbox
    /\ IF m.type = "command"
         THEN nOrd < MaxOrdMsgs /\ nOrd' = nOrd + 1
         ELSE nMsgs + Waiting(ConnIds) < MaxMsgs /\ UNCHANGED nOrd
    /\ inbox' = [inbox EXCEPT ![c] = Append(@, m)]
    /\ out' = {}
    /\ UNCHANGED <<sessions, wsPc, wsTok, wsPid, wsLoc, _connections, _device_states, _pairings,
                   _token_to_profile, _token_to_name, _last_position_save, nMsgs, nDbOps>>
    /\ UNCHANGED forwarded
    /\ UNCHANGED nonHub

\* Line 82: receive_json returns the oldest message waiting on the socket.
receive_jsonMut(q) == [data |-> q[Len(q)], rest |-> SubSeq(q, 1, Len(q) - 1)]
receive_json(q) == [data |-> Head(q), rest |-> Tail(q)]

\* _handle_message lines 132-142: dispatch on the message type.
_handle_message(c, data) ==
    CASE data.type = "pair" -> HubPair(c, data.dev)
      [] data.type = "unpair" -> HubUnpair(c)
      [] data.type = "command" -> _handle_command(c) /\ UNCHANGED nMsgs

\* Lines 81-83: one turn of the read loop up to the handler's first awaited send
\* that is followed by more code.  The loop is back at receive_json when the
\* handler has returned, that is when the connection is "open" again.
OrdRead(c) ==
    /\ wsPc[c] = "open"
    /\ inbox[c] # <<>>
    /\ LET rcv == receive_json(inbox[c]) IN
        /\ _handle_message(c, rcv.data)
        /\ inbox' = [inbox EXCEPT ![c] = rcv.rest]
        /\ forwarded' = IF \E o \in out' : o.type = "command"
                          THEN Append(forwarded, [by |-> c, no |-> rcv.data.no]) ELSE forwarded
    /\ UNCHANGED nOrd

\* Lines 84-89: the client's close is read after everything it sent before.
OrdDisconnect(c) ==
    /\ inbox[c] = <<>>
    /\ WsDisconnect(c)
    /\ UNCHANGED ordVars

OrdNext ==
    \/ \E c \in 1..MaxOrdConn, k \in {"t1", "t2"} : WsConnect(c, k) /\ UNCHANGED ordVars
    \/ \E c \in ConnIds : WsRegister(c) /\ UNCHANGED ordVars
    \/ \E c \in ConnIds : \E m \in PairMsgs \cup {CmdMsg(nOrd + 1)} : ClientSend(c, m)
    \/ \E c \in ConnIds : OrdRead(c)
    \/ \E c \in ConnIds : HubPairResume1(c) /\ UNCHANGED ordVars
    \/ \E c \in ConnIds : HubPairResume2(c) /\ UNCHANGED ordVars
    \/ \E c \in ConnIds : OrdDisconnect(c)
    \/ \E c \in ConnIds : WsCleanupResume(c) /\ UNCHANGED ordVars


(***************************************************************************)
(* Three devices that can share a profile: pair requests within the        *)
(* message budget, each device reporting its player state once, connects   *)
(* and disconnects.                                                        *)
(***************************************************************************)
Playing == [videoId |-> "v1", currentTime |-> 10]

RepairNext ==
    \/ \E p \in Profiles : SelectProfile("t3", p) /\ UNCHANGED ordVars
    \/ \E c \in ConnIds, k \in Tokens : WsConnect(c, k) /\ UNCHANGED ordVars
    \/ \E c \in ConnIds : WsRegister(c) /\ UNCHANGED ordVars
    \/ \E c \in ConnIds : WsDisconnect(c) /\ UNCHANGED ordVars
    \/ \E c \in ConnIds : WsCleanupResume(c) /\ UNCHANGED ordVars
    \/ \E c \in ConnIds, d \in {"d1", "d2", "d3"} : HubPair(c, d) /\ UNCHANGED ordVars
    \/ \E c \in ConnIds : HubPairResume1(c) /\ UNCHANGED ordVars
    \/ \E c \in ConnIds : HubPairResume2(c) /\ UNCHANGED ordVars
    \/ \E c \in ConnIds : /\ wsPc[c] = "open"
                          /\ _device_states[wsTok[c]] = NoState
                          /\ _handle_state(c, Playing)
                          /\ UNCHANGED <<nMsgs, ordVars>>
    \/ \E c \in ConnIds : HubStateResume(c) /\ UNCHANGED ordVars

(***************************************************************************)
(* Download tracker (web/routes/video.py).                                 *)
(***************************************************************************)
Vids == {"v1", "v2"}
JobIds == 1..MaxJobs
NoJob == 0
NoVid == "none"
NoResp == [op |-> "none", vid |-> NoVid, status |-> "none", progress |-> 0]
NewJob == [status |-> "starting", progress |-> 0, process |-> FALSE]
Progresses == {0, 50, 99, 100}
ExpireAfter == 60

DlInit ==
    /\ active_downloads = [v \in Vids |-> NoJob]
    /\ jobs = [j \in JobIds |-> NewJob]
    /\ dlPc = [j \in JobIds |-> "none"]
    /\ dlVid = [j \in JobIds |-> NoVid]
    /\ dlPhase = [j \in JobIds |-> TRUE]
    /\ proc = [j \in JobIds |-> "none"]
    /\ files \in SUBSET Vids
    /\ cnPc = [v \in Vids |-> "idle"]
    /\ cnJob = [v \in Vids |-> NoJob]
    /\ resp = NoResp
    /\ nJobs = 0
    /\ created = [v \in Vids |-> 0]
    /\ launched = [v \in Vids |-> 0]
    /\ expired = [v \in Vids |-> 0]
    /\ dlLeft = [j \in JobIds |-> 0]

\* play_video line 38: is a job tracked for the id?
TrackedMut(v) == active_downloads[v] # NoJob /\ jobs[active_downloads[v]].status \in {"starting", "downloading"}
Tracked(v) == active_downloads[v] # NoJob

\* play_video lines 30-133.  The handler's tail (sleep 0.3 s, then the fixed
\* "downloading" answer) reads no state.
Play(v) ==
    /\ IF v \in files /\ active_downloads[v] = NoJob
         THEN /\ resp' = [op |-> "play", vid |-> v, status |-> "ready", progress |-> 0]
              /\ UNCHANGED <<active_downloads, jobs, dlPc, dlVid, dlPhase, nJobs, created>>
         ELSE IF Tracked(v)
                THEN /\ resp' = [op |-> "play", vid |-> v,
                                 status |-> jobs[active_downloads[v]].status,
                                 progress |-> jobs[active_downloads[v]].progress]
                     /\ UNCHANGED <<active_downloads, jobs, dlPc, dlVid, dlPhase, nJobs, created>>
                ELSE /\ nJobs < MaxJobs
                     /\ LET j == nJobs + 1 IN
                         /\ active_downloads' = [active_downloads EXCEPT ![v] = j]
                         /\ jobs' = [jobs EXCEPT ![j] = NewJob]
                         /\ dlPc' = [dlPc EXCEPT ![j] = "start"]
                         /\ dlVid' = [dlVid EXCEPT ![j] = v]
                         /\ dlPhase' = [dlPhase EXCEPT ![j] = TRUE]
                         /\ nJobs' = j
                         /\ created' = [created EXCEPT ![v] = @ + 1]
                     /\ resp' = [op |-> "play", vid |-> v, status |-> "downloading", progress |-> 0]
    /\ UNCHANGED <<proc, files, cnPc, cnJob, launched, expired, dlLeft>>
    /\ UNCHANGED nonDl

\* The record active_downloads[video_id] a download() task writes to.
Rec(j) == IF dlVid[j] = NoVid THEN NoJob ELSE active_downloads[dlVid[j]]

\* download() lines 55-83: up to `await asyncio.create_subprocess_exec`.
TaskStart(j) ==
    /\ dlPc[j] = "start"
    /\ IF Rec(j) = NoJob
         THEN /\ dlPc' = [dlPc EXCEPT ![j] = "sleeping"]      \* KeyError, then the finally block
              /\ dlLeft' = [dlLeft EXCEPT ![j] = ExpireAfter]
              /\ UNCHANGED <<jobs, launched>>
         ELSE /\ jobs' = [jobs EXCEPT ![Rec(j)].status = "downloading"]
              /\ launched' = [launched EXCEPT ![dlVid[j]] = @ + 1]
              /\ dlPc' = [dlPc EXCEPT ![j] = "spawning"]
              /\ UNCHANGED dlLeft
    /\ resp' = NoResp
    /\ UNCHANGED <<active_downloads, dlVid, dlPhase, proc, files, cnPc, cnJob, nJobs, created, expired>>
    /\ UNCHANGED nonDl

\* download() lines 67-88: create_subprocess_exec returns the process (ok) or
\* raises (lines 117-122).
TaskSpawned(j, ok) ==
    /\ dlPc[j] = "spawning"
    /\ IF ok /\ Rec(j) # NoJob
         THEN /\ proc' = [proc EXCEPT ![j] = "running"]
              /\ jobs' = [jobs EXCEPT ![Rec(j)].process = TRUE]
              /\ dlPc' = [dlPc EXCEPT ![j] = "reading"]
              /\ UNCHANGED dlLeft
         ELSE /\ proc' = [proc EXCEPT ![j] = IF ok THEN "running" ELSE "none"]
              /\ jobs' = IF Rec(j) # NoJob THEN [jobs EXCEPT ![Rec(j)].status = "error"] ELSE jobs
              /\ dlPc' = [dlPc EXCEPT ![j] = "sleeping"]
              /\ dlLeft' = [dlLeft EXCEPT ![j] = ExpireAfter]
    /\ resp' = NoResp
    /\ UNCHANGED <<active_downloads, dlVid, dlPhase, files, cnPc, cnJob, nJobs, created, launched, expired>>
    /\ UNCHANGED nonDl

\* download() lines 87-105: one line of the process's output is classified.
TaskLine(j, kind) ==
    /\ dlPc[j] = "reading"
    /\ proc[j] \in {"running", "terminating"}
    /\ Rec(j) # NoJob
    /\ CASE kind = "audio" -> /\ dlPhase' = [dlPhase EXCEPT ![j] = FALSE]
                              /\ UNCHANGED jobs
         [] kind = "merger" -> /\ jobs' = [jobs EXCEPT ![Rec(j)].progress = 99]
                               /\ UNCHANGED dlPhase
         [] kind = "pct" -> /\ jobs' = IF dlPhase[j] THEN [jobs EXCEPT ![Rec(j)].progress = 50] ELSE jobs
                            /\ UNCHANGED dlPhase
         [] OTHER -> UNCHANGED <<jobs, dlPhase>>       \* any other line is ignored
    /\ resp' = NoResp
    /\ UNCHANGED <<active_downloads, dlPc, dlVid, proc, files, cnPc, cnJob, nJobs, created, launched, expired, dlLeft>>
    /\ UNCHANGED nonDl

\* download() lines 89-122: end of output, `await process.wait()`, then the
\* outcome is written and the task sleeps 60 s.
TaskFinish(j) ==
    /\ dlPc[j] = "reading"
    /\ proc[j] \in {"exit0", "exitErr"}
    /\ jobs' = IF Rec(j) = NoJob THEN jobs
               ELSE IF proc[j] = "exit0" /\ dlVid[j] \in files
                      THEN [jobs EXCEPT ![Rec(j)].status = "finished", ![Rec(j)].progress = 100]
                      ELSE [jobs EXCEPT ![Rec(j)].status = "error"]
    /\ dlPc' = [dlPc EXCEPT ![j] = "sleeping"]
    /\ dlLeft' = [dlLeft EXCEPT ![j] = ExpireAfter]
    /\ resp' = NoResp
    /\ UNCHANGED <<active_downloads, dlVid, dlPhase, proc, files, cnPc, cnJob, nJobs, created, launched, expired>>
    /\ UNCHANGED nonDl

\* download() line 122: the 60 seconds of `await asyncio.sleep(60)` pass.  The
\* clock is read by sleeping tasks only: it moves to one second before the next
\* task is due to wake, and from there to the moment it is due.
Sleepers == {j \in JobIds : dlPc[j] = "sleeping" /\ dlLeft[j] > 0}
NextWake == CHOOSE m \in {dlLeft[j] : j \in Sleepers} : \A j \in Sleepers : m <= dlLeft[j]
DlTick ==
    /\ Sleepers # {}
    /\ LET d == IF NextWake > 1 THEN NextWake - 1 ELSE 1 IN
        dlLeft' = [j \in JobIds |-> IF j \in Sleepers THEN dlLeft[j] - d ELSE dlLeft[j]]
    /\ resp' = NoResp
    /\ UNCHANGED <<active_downloads, jobs, dlPc, dlVid, dlPhase, proc, files, cnPc, cnJob,
                   nJobs, created, launched, expired>>
    /\ UNCHANGED nonDl

\* download() line 122: has `await asyncio.sleep(60)` returned?
SleptMut(j) == TRUE
Slept(j) == dlLeft[j] = 0

\* download() lines 122-123: after the sleep the record under the id is popped.
\* The task is over: its locals, the popped record and the handle of an ended
\* process are garbage.
TaskExpire(j) ==
    /\ dlPc[j] = "sleeping"
    /\ Slept(j)
    /\ active_downloads' = [active_downloads EXCEPT ![dlVid[j]] = NoJob]
    /\ expired' = [expired EXCEPT ![dlVid[j]] = IF Rec(j) # NoJob THEN @ + 1 ELSE @]
    /\ jobs' = IF Rec(j) # NoJob THEN [jobs EXCEPT ![Rec(j)] = NewJob] ELSE jobs
    /\ dlPc' = [dlPc EXCEPT ![j] = "done"]
    /\ dlPhase' = [dlPhase EXCEPT ![j] = TRUE]
    /\ IF proc[j] \in {"running", "terminating"}
         THEN UNCHANGED <<proc, dlVid>>
         ELSE /\ proc' = [proc EXCEPT ![j] = "none"]
              /\ dlVid' = [dlVid EXCEPT ![j] = NoVid]
    /\ resp' = NoResp
    /\ UNCHANGED <<files, cnPc, cnJob, nJobs, created, launched, dlLeft>>
    /\ UNCHANGED nonDl

\* The yt-dlp subprocess ends: with code 0 after writing the merged file, or with
\* an error code (always so once it was signalled).
ProcExit(j, ok) ==
    /\ proc[j] \in {"running", "terminating"}
    /\ ok => proc[j] = "running"
    /\ proc' = [proc EXCEPT ![j] = IF ok THEN "exit0" ELSE "exitErr"]
    /\ files' = IF ok THEN files \cup {dlVid[j]} ELSE files
    /\ resp' = NoResp
    /\ UNCHANGED <<active_downloads, jobs, dlPc, dlVid, dlPhase, cnPc, cnJob, nJobs, created, launched, expired, dlLeft>>
    /\ UNCHANGED nonDl

\* cancel_download lines 305-327 up to `await asyncio.wait_for(process.wait(), 5)`.
\* The process of a record is the one its task started: the handle is named by
\* the task that stored it.
ProcOf(r) == IF \E j \in JobIds : dlPc[j] # "none" /\ Rec(j) = r /\ proc[j] # "none"
               THEN CHOOSE j \in JobIds : dlPc[j] # "none" /\ Rec(j) = r /\ proc[j] # "none"
               ELSE NoJob

Cancel(v) ==
    /\ cnPc[v] = "idle"
    /\ IF active_downloads[v] # NoJob
         THEN LET r == active_downloads[v]
                  p == ProcOf(r)
              IN IF jobs[r].process /\ p # NoJob /\ proc[p] \in {"running", "terminating"}
                   THEN /\ proc' = [proc EXCEPT ![p] = "terminating"]
                        /\ cnPc' = [cnPc EXCEPT ![v] = "waiting"]
                        /\ cnJob' = [cnJob EXCEPT ![v] = r]
                        /\ resp' = NoResp
                        /\ UNCHANGED <<jobs, files>>
                   ELSE /\ jobs' = [jobs EXCEPT ![r].status = "cancelled"]
                        /\ files' = files \ {v}
                        /\ resp' = [op |-> "cancel", vid |-> v, status |-> "cancelled", progress |-> 0]
                        /\ UNCHANGED <<proc, cnPc, cnJob>>
         ELSE /\ files' = files \ {v}
              /\ resp' = [op |-> "cancel", vid |-> v, status |-> "cancelled", progress |-> 0]
              /\ UNCHANGED <<jobs, proc, cnPc, cnJob>>
    /\ UNCHANGED <<active_downloads, dlPc, dlVid, dlPhase, nJobs, created, launched, expired, dlLeft>>
    /\ UNCHANGED nonDl

\* cancel_download lines 314-327: the wait returned (the process ended) or timed
\* out after 5 s (the process is killed); the held record is marked cancelled.
CancelResume(v) ==
    /\ cnPc[v] = "waiting"
    /\ jobs' = IF active_downloads[v] = cnJob[v]
                 THEN [jobs EXCEPT ![cnJob[v]].status = "cancelled"]
                 ELSE jobs       \* the held dict is no longer in active_downloads
    /\ files' = files \ {v}
    /\ cnPc' = [cnPc EXCEPT ![v] = "idle"]
    /\ cnJob' = [cnJob EXCEPT ![v] = NoJob]
    /\ resp' = [op |-> "cancel", vid |-> v, status |-> "cancelled", progress |-> 0]
    /\ UNCHANGED <<active_downloads, dlPc, dlVid, dlPhase, proc, nJobs, created, launched, expired, dlLeft>>
    /\ UNCHANGED nonDl

\* get_progress lines 287-302.
Progress(v) ==
    /\ resp' = IF active_downloads[v] # NoJob
                 THEN [op |-> "progress", vid |-> v, status |-> jobs[active_downloads[v]].status,
                       progress |-> jobs[active_downloads[v]].progress]
               ELSE IF v \in files
                 THEN [op |-> "progress", vid |-> v, status |-> "ready", progress |-> 100]
                 ELSE [op |-> "progress", vid |-> v, status |-> "not_found", progress |-> 0]
    /\ UNCHANGED <<active_downloads, jobs, dlPc, dlVid, dlPhase, proc, files, cnPc, cnJob,
                   nJobs, created, launched, expired, dlLeft>>
    /\ UNCHANGED nonDl

DlNext ==
    \/ \E v \in Vids : Play(v)
    \/ \E j \in JobIds : TaskStart(j)
    \/ \E j \in JobIds, ok \in BOOLEAN : TaskSpawned(j, ok)
    \/ \E j \in JobIds, kind \in {"audio", "merger", "pct"} : TaskLine(j, kind)
    \/ \E j \in JobIds : TaskFinish(j)
    \/ \E j \in JobIds : TaskExpire(j)
    \/ \E j \in JobIds, ok \in BOOLEAN : ProcExit(j, ok)
    \/ \E v \in Vids : Cancel(v)
    \/ \E v \in Vids : CancelResume(v)
    \/ \E v \in Vids : Progress(v)
    \/ DlTick

\* The tracker under requests for one video id; every task that can take a step
\* eventually takes it, a started subprocess eventually exits, and time passes.
ExpNext ==
    \/ Play("v1")
    \/ \E j \in JobIds : TaskStart(j)
    \/ \E j \in JobIds, ok \in BOOLEAN : TaskSpawned(j, ok)
    \/ \E j \in JobIds, kind \in {"audio", "merger", "pct"} : TaskLine(j, kind)
    \/ \E j \in JobIds : TaskFinish(j)
    \/ \E j \in JobIds : TaskExpire(j)
    \/ \E j \in JobIds, ok \in BOOLEAN : ProcExit(j, ok)
    \/ Cancel("v1")
    \/ CancelResume("v1")
    \/ Progress("v1")
    \/ DlTick

ExpFair ==
    /\ \A j \in JobIds : WF_vars(TaskStart(j))
    /\ \A j \in JobIds : WF_vars(\E ok \in BOOLEAN : TaskSpawned(j, ok))
    /\ \A j \in JobIds : WF_vars(TaskFinish(j))
    /\ \A j \in JobIds : WF_vars(TaskExpire(j))
    /\ \A j \in JobIds : WF_vars(\E ok \in BOOLEAN : ProcExit(j, ok))
    /\ WF_vars(DlTick)

(***************************************************************************)
(* Wall clock.  Each subsystem that reads time.time() advances it by the   *)
(* durations its own code compares against.                                *)
(***************************************************************************)
TimeInit == now = 0 /\ nTicks = 0

(***************************************************************************)
(* Extraction cache (web/helpers.py).                                      *)
(***************************************************************************)
_THROTTLE_COOLDOWN == 600
_INFO_CACHE_TTL == 18000
_NEGATIVE_CACHE_TTL == 300

Thr == 1..MaxThr
NoThr == 0
Modes == {"off", "auto", "on"}
\* What one resolver call (extract_info) gives: an info dict, or an error whose
\* message is age-restricted, throttled or anything else.
Infos == {"i1", "i2"}
ErrKinds == {"age", "throttle", "other"}
Outcomes == Infos \cup ErrKinds

NoCacheEntry == [kind |-> "none", val |-> "none", created |-> 0, age_restricted |-> FALSE]
NoLocals == [vid |-> NoVid, mode |-> "auto", now |-> 0, flag |-> FALSE, err |-> "none"]
NoRet == [thr |-> NoThr, vid |-> NoVid, mode |-> "auto", res |-> "none", over |-> "no"]

InfoInit ==
    /\ _info_cache = [v \in Vids |-> NoCacheEntry]
    /\ _info_lock = NoThr
    /\ _throttled_until = 0
    /\ ydl_info_auth \in BOOLEAN
    /\ tPc = [t \in Thr |-> "idle"]
    /\ tLoc = [t \in Thr |-> NoLocals]
    /\ tOver = [t \in Thr |-> "no"]
    /\ ageFailed = {}
    /\ infoRet = NoRet
    /\ nCalls = 0

\* get_video_info lines 217-223 and 227-233: the cached entry is still usable.
CacheHit(v) ==
    LET cached == _info_cache[v] IN
    \/ cached.kind = "error" /\ now - cached.created < _NEGATIVE_CACHE_TTL
    \/ cached.kind = "info" /\ now - cached.created < _INFO_CACHE_TTL

\* The call of thread t ends: it returns the info or raises the error `res`.
Return(t, res) ==
    /\ infoRet' = [thr |-> t, vid |-> tLoc[t].vid, mode |-> tLoc[t].mode, res |-> res,
                    over |-> tOver[t]]
    /\ tPc' = [tPc EXCEPT ![t] = "idle"]
    /\ tLoc' = [tLoc EXCEPT ![t] = NoLocals]

\* _info_cache[video_id] = entry by thread t; the calls for the same id that
\* are waiting for the lock have now overlapped a finished extraction.
Store(t, entry) ==
    /\ _info_cache' = [_info_cache EXCEPT ![tLoc[t].vid] = entry]
    /\ tOver' = [u \in Thr |->
                   IF u = t THEN "no"
                   ELSE IF tPc[u] = "wait" /\ tLoc[u].vid = tLoc[t].vid /\ tOver[u] = "no"
                          THEN entry.val
                          ELSE tOver[u]]

\* get_video_info lines 211-223: the unlocked first look at the cache; on a
\* miss the thread goes on to `with _info_lock`.
InfoCall(t, v, mode) ==
    /\ tPc[t] = "idle"
    /\ nCalls < MaxCalls
    /\ nCalls' = nCalls + 1
    /\ IF CacheHit(v)
         THEN /\ infoRet' = [thr |-> t, vid |-> v, mode |-> mode, res |-> _info_cache[v].val,
                              over |-> "no"]
              /\ UNCHANGED <<tPc, tLoc>>
         ELSE /\ tPc' = [tPc EXCEPT ![t] = "wait"]
              /\ tLoc' = [tLoc EXCEPT ![t] = [NoLocals EXCEPT !.vid = v, !.mode = mode]]
              /\ infoRet' = NoRet
    /\ UNCHANGED <<_info_cache, _info_lock, _throttled_until, ydl_info_auth, tOver, ageFailed>>
    /\ UNCHANGED timeVars
    /\ UNCHANGED nonInfo

\* threading.Lock.acquire of line 225.
LockFreeMut == TRUE
LockFree == _info_lock = NoThr

\* get_video_info lines 239-249: which instance is tried first.
use_auth_firstMut(cookie_mode, flag) ==
    ydl_info_auth /\ (cookie_mode = "on" \/ flag \/ now < _throttled_until)
use_auth_first(cookie_mode, flag) ==
    \/ cookie_mode = "on" /\ ydl_info_auth
    \/ cookie_mode = "auto" /\ ydl_info_auth /\ (flag \/ now < _throttled_until)

\* get_video_info lines 225-253: the lock is taken, the cache re-read; on a
\* miss `now` is read, the instance chosen and its extract_info call entered.
InfoAcquire(t) ==
    /\ tPc[t] = "wait"
    /\ LockFree
    /\ LET v == tLoc[t].vid
           cached == _info_cache[v]
           flag == cached.kind # "none" /\ cached.age_restricted
       IN IF CacheHit(v)
            THEN /\ Return(t, cached.val)
                 /\ tOver' = [tOver EXCEPT ![t] = "no"]
                 /\ UNCHANGED _info_lock
            ELSE /\ _info_lock' = t
                 /\ tPc' = [tPc EXCEPT ![t] = IF use_auth_first(tLoc[t].mode, flag)
                                                 THEN "auth" ELSE "anon"]
                 /\ tLoc' = [tLoc EXCEPT ![t].now = now, ![t].flag = flag]
                 /\ infoRet' = NoRet
                 /\ UNCHANGED tOver
    /\ UNCHANGED <<_info_cache, _throttled_until, ydl_info_auth, ageFailed, nCalls>>
    /\ UNCHANGED timeVars
    /\ UNCHANGED nonInfo

\* get_video_info lines 250-260 and 261-285: the first extract_info call
\* returns info (cached, returned) or raises; in auto mode an anonymous failure
\* that is age-restricted or throttled goes on to the call with cookies.
InfoResolved(t, o) ==
    /\ tPc[t] \in {"anon", "auth"}
    /\ IF o \in Infos
         THEN /\ Store(t, [kind |-> "info", val |-> o, created |-> tLoc[t].now,
                           age_restricted |-> tLoc[t].flag])
              /\ Return(t, o)
              /\ _info_lock' = NoThr
              /\ UNCHANGED ageFailed
         ELSE IF tLoc[t].mode = "auto" /\ ydl_info_auth /\ tPc[t] = "anon"
                   /\ o \in {"age", "throttle"}
                THEN /\ tPc' = [tPc EXCEPT ![t] = "retry"]
                     /\ tLoc' = [tLoc EXCEPT ![t].err = o]
                     /\ ageFailed' = IF o = "age" THEN ageFailed \cup {tLoc[t].vid} ELSE ageFailed
                     /\ infoRet' = NoRet
                     /\ UNCHANGED <<_info_cache, _info_lock, tOver>>
                ELSE /\ Store(t, [kind |-> "error", val |-> o, created |-> tLoc[t].now,
                                  age_restricted |-> FALSE])
                     /\ Return(t, o)
                     /\ _info_lock' = NoThr
                     /\ UNCHANGED ageFailed
    /\ UNCHANGED <<_throttled_until, ydl_info_auth, nCalls>>
    /\ UNCHANGED timeVars
    /\ UNCHANGED nonInfo

\* get_video_info lines 268-282: the retry with cookies returns or raises.
InfoRetried(t, o) ==
    /\ tPc[t] = "retry"
    /\ IF o \in Infos
         THEN /\ Store(t, [kind |-> "info", val |-> o, created |-> tLoc[t].now,
                           age_restricted |-> tLoc[t].err = "age"])
              /\ _throttled_until' = IF tLoc[t].err = "throttle"
                                       THEN tLoc[t].now + _THROTTLE_COOLDOWN
                                       ELSE _throttled_until
         ELSE /\ Store(t, [kind |-> "error", val |-> o, created |-> tLoc[t].now,
                           age_restricted |-> FALSE])
              /\ UNCHANGED _throttled_until
    /\ Return(t, o)
    /\ _info_lock' = NoThr
    /\ UNCHANGED <<ydl_info_auth, ageFailed, nCalls>>
    /\ UNCHANGED timeVars
    /\ UNCHANGED nonInfo

\* Time passes: by the negative TTL, the throttle cooldown or the positive TTL.
InfoTick(d) ==
    /\ nTicks < MaxInfoTicks
    /\ now' = now + d
    /\ nTicks' = nTicks + 1
    /\ infoRet' = NoRet
    /\ UNCHANGED <<_info_cache, _info_lock, _throttled_until, ydl_info_auth, tPc, tLoc, tOver,
                   ageFailed, nCalls>>
    /\ UNCHANGED nonInfo

InfoNext ==
    \/ \E t \in Thr, v \in Vids, mode \in Modes : InfoCall(t, v, mode)
    \/ \E t \in Thr : InfoAcquire(t)
    \/ \E t \in Thr, o \in Outcomes : InfoResolved(t, o)
    \/ \E t \in Thr, o \in Outcomes : InfoRetried(t, o)
    \/ \E d \in {_NEGATIVE_CACHE_TTL, _THROTTLE_COOLDOWN, _INFO_CACHE_TTL} : InfoTick(d)

(***************************************************************************)
(* Device pairing (web/auth.py).  A password is set and the approving user *)
(* is logged in.  A code names one request: _generate_pair_code draws six  *)
(* of 32 symbols at random until the code is not in the table.  The        *)
(* session token create_session binds to a request is named by its code.   *)
(***************************************************************************)
_PAIR_TTL == 300
_PAIR_RATE_WINDOW == 600
_PAIR_RATE_MAX == 5

IPs == {"ip1", "ip2"}
NoIP == "none"
Codes == 1..MaxCodes
NoCode == 0
NoReq == [status |-> "none", created_at |-> 0, expires_at |-> 0, requester_ip |-> NoIP]
NoPairResp == [op |-> "none", code |-> NoCode, ip |-> NoIP, status |-> "none"]

PairInit ==
    /\ PAIRING_REQUESTS = [c \in Codes |-> NoReq]
    /\ PAIRING_RATE = [ip \in IPs |-> <<>>]
    /\ pairSessions = {}
    /\ delivered = {}
    /\ pairOk = [ip \in IPs |-> <<>>]
    /\ pairResp = NoPairResp
    /\ nCodes = 0

\* [t for t in timestamps if now - t < _PAIR_RATE_WINDOW]
RECURSIVE Recent(_, _)
Recent(ts, t) ==
    IF ts = <<>> THEN <<>>
    ELSE IF t - Head(ts) < _PAIR_RATE_WINDOW THEN <<Head(ts)>> \o Recent(Tail(ts), t)
    ELSE Recent(Tail(ts), t)

\* pair_request line 608: the limit test on the pruned list.
RateFullMut(timestamps) == Len(timestamps) > _PAIR_RATE_MAX
RateFull(timestamps) == Len(timestamps) >= _PAIR_RATE_MAX

\* pair_request lines 597-628.
PairRequest(ip) ==
    LET timestamps == Recent(PAIRING_RATE[ip], now) IN
    /\ IF RateFull(timestamps)
         THEN /\ pairResp' = [op |-> "request", code |-> NoCode, ip |-> ip, status |-> "429"]
              /\ UNCHANGED <<PAIRING_REQUESTS, PAIRING_RATE, pairSessions, pairOk, nCodes>>
         ELSE /\ nCodes < MaxCodes
              /\ LET code == nCodes + 1 IN
                  /\ PAIRING_RATE' = [PAIRING_RATE EXCEPT ![ip] = Append(timestamps, now)]
                  /\ pairSessions' = pairSessions \cup {code}
                  /\ PAIRING_REQUESTS' = [PAIRING_REQUESTS EXCEPT ![code] =
                        [status |-> "pending", created_at |-> now,
                         expires_at |-> now + _PAIR_TTL, requester_ip |-> ip]]
                  /\ pairOk' = [pairOk EXCEPT ![ip] = Append(@, now)]
                  /\ nCodes' = code
                  /\ pairResp' = [op |-> "request", code |-> code, ip |-> ip, status |-> "ok"]
    /\ UNCHANGED delivered
    /\ UNCHANGED timeVars
    /\ UNCHANGED nonPair

\* pair_status line 639 and _cleanup_pairing line 59: is the session of a
\* request that expired deleted?
KeepsSession(req) == req.status = "approved"

\* pair_status line 636: the request is past its expiry time.
ExpiredMut(req) == req.expires_at <= now
Expired(req) == req.expires_at < now

\* pair_status lines 631-665, polled for a code that was issued.
PairStatus(c) ==
    LET req == PAIRING_REQUESTS[c] IN
    /\ c <= nCodes
    /\ IF req = NoReq
         THEN /\ pairResp' = [op |-> "status", code |-> c, ip |-> NoIP, status |-> "expired"]
              /\ UNCHANGED <<PAIRING_REQUESTS, pairSessions, delivered>>
         ELSE IF Expired(req)
           THEN /\ PAIRING_REQUESTS' = [PAIRING_REQUESTS EXCEPT ![c] = NoReq]
                /\ pairSessions' = IF KeepsSession(req) THEN pairSessions ELSE pairSessions \ {c}
                /\ pairResp' = [op |-> "status", code |-> c, ip |-> NoIP, status |-> "expired"]
                /\ UNCHANGED delivered
         ELSE IF req.status = "approved"
           THEN /\ PAIRING_REQUESTS' = [PAIRING_REQUESTS EXCEPT ![c] = NoReq]
                /\ delivered' = delivered \cup {c}
                /\ pairResp' = [op |-> "status", code |-> c, ip |-> NoIP, status |-> "approved"]
                /\ UNCHANGED pairSessions
         ELSE IF req.status = "denied"
           THEN /\ PAIRING_REQUESTS' = [PAIRING_REQUESTS EXCEPT ![c] = NoReq]
                /\ pairResp' = [op |-> "status", code |-> c, ip |-> NoIP, status |-> "denied"]
                /\ UNCHANGED <<pairSessions, delivered>>
         ELSE /\ pairResp' = [op |-> "status", code |-> c, ip |-> NoIP, status |-> "pending"]
              /\ UNCHANGED <<PAIRING_REQUESTS, pairSessions, delivered>>
    /\ UNCHANGED <<PAIRING_RATE, pairOk, nCodes>>
    /\ UNCHANGED timeVars
    /\ UNCHANGED nonPair

\* pair_approve / pair_deny lines 869-873 and 882-886: the checks both share.
DecidableMut(req) ==
    IF req = NoReq \/ req.expires_at < now THEN "404"
    ELSE "ok"
Decidable(req) ==
    IF req = NoReq \/ req.expires_at < now THEN "404"
    ELSE IF req.status # "pending" THEN "400"
    ELSE "ok"

\* pair_approve lines 866-876.
PairApprove(c) ==
    LET req == PAIRING_REQUESTS[c] IN
    /\ c <= nCodes
    /\ PAIRING_REQUESTS' = IF Decidable(req) = "ok"
                             THEN [PAIRING_REQUESTS EXCEPT ![c].status = "approved"]
                             ELSE PAIRING_REQUESTS
    /\ pairResp' = [op |-> "approve", code |-> c, ip |-> NoIP,
                    status |-> IF Decidable(req) = "ok" THEN "approved" ELSE Decidable(req)]
    /\ UNCHANGED <<PAIRING_RATE, pairSessions, delivered, pairOk, nCodes>>
    /\ UNCHANGED timeVars
    /\ UNCHANGED nonPair

\* pair_deny lines 879-891.
PairDeny(c) ==
    LET req == PAIRING_REQUESTS[c] IN
    /\ c <= nCodes
    /\ IF Decidable(req) = "ok"
         THEN /\ PAIRING_REQUESTS' = [PAIRING_REQUESTS EXCEPT ![c].status = "denied"]
              /\ pairSessions' = pairSessions \ {c}
              /\ pairResp' = [op |-> "deny", code |-> c, ip |-> NoIP, status |-> "denied"]
         ELSE /\ pairResp' = [op |-> "deny", code |-> c, ip |-> NoIP, status |-> Decidable(req)]
              /\ UNCHANGED <<PAIRING_REQUESTS, pairSessions>>
    /\ UNCHANGED <<PAIRING_RATE, delivered, pairOk, nCodes>>
    /\ UNCHANGED timeVars
    /\ UNCHANGED nonPair

\* _cleanup_pairing lines 54-67, one of the registered periodic cleanups.
PairSweep ==
    LET expired_codes == {c \in Codes : PAIRING_REQUESTS[c] # NoReq /\ PAIRING_REQUESTS[c].expires_at < now} IN
    /\ PAIRING_REQUESTS' = [c \in Codes |-> IF c \in expired_codes THEN NoReq ELSE PAIRING_REQUESTS[c]]
    /\ pairSessions' = pairSessions \ {c \in expired_codes : ~KeepsSession(PAIRING_REQUESTS[c])}
    /\ PAIRING_RATE' = [ip \in IPs |-> Recent(PAIRING_RATE[ip], now)]
    /\ pairResp' = [NoPairResp EXCEPT !.op = "sweep"]
    /\ UNCHANGED <<delivered, pairOk, nCodes>>
    /\ UNCHANGED timeVars
    /\ UNCHANGED nonPair

\* Time passes, by half the life of a code.
PairTick ==
    /\ nTicks < MaxPairTicks
    /\ now' = now + _PAIR_TTL \div 2
    /\ nTicks' = nTicks + 1
    /\ pairResp' = NoPairResp
    /\ UNCHANGED <<PAIRING_REQUESTS, PAIRING_RATE, pairSessions, delivered, pairOk, nCodes>>
    /\ UNCHANGED nonPair

\* The life of a few codes: requested, polled, approved, denied, expired, swept.
PairRequestFew(ip) == PairRequest(ip) /\ nCodes' <= MaxPolled

PairNext ==
    \/ \E ip \in IPs : PairRequestFew(ip)
    \/ \E c \in Codes : PairStatus(c)
    \/ \E c \in Codes : PairApprove(c)
    \/ \E c \in Codes : PairDeny(c)
    \/ PairSweep
    \/ PairTick

\* Many requests over time, their codes left to expire.
RateNext ==
    \/ \E ip \in IPs : PairRequest(ip)
    \/ PairSweep
    \/ PairTick

(***************************************************************************)
(* Login lockout (web/auth.py).                                            *)
(***************************************************************************)
ShortBlockAfter == 5
LongBlockAfter == 10
ShortBlock == 3600
LongBlock == 86400
FailureMaxAge == 86400

NoRec == [count |-> 0, blocked_until |-> 0, last_failure |-> 0]
NoAuthResp == [ip |-> NoIP, res |-> "none", had |-> 0, cookie |-> FALSE]

AuthInit ==
    /\ AUTH_FAILURES = [ip \in IPs |-> NoRec]
    /\ authResp = NoAuthResp
    /\ nSessions = 0

\* is_ip_blocked lines 105-111.
is_ip_blocked(ip) == AUTH_FAILURES[ip] # NoRec /\ AUTH_FAILURES[ip].blocked_until > now

\* record_failure lines 119-125: the block a failure count sets.
BlockedUntilMut(count, old) ==
    IF count > LongBlockAfter THEN now + LongBlock
    ELSE IF count > ShortBlockAfter THEN now + ShortBlock
    ELSE old
BlockedUntil(count, old) ==
    IF count >= LongBlockAfter THEN now + LongBlock
    ELSE IF count >= ShortBlockAfter THEN now + ShortBlock
    ELSE old

\* record_failure lines 114-125.
record_failure(ip) ==
    LET info == AUTH_FAILURES[ip]
        count == info.count + 1
    IN [AUTH_FAILURES EXCEPT ![ip] =
          [count |-> count, blocked_until |-> BlockedUntil(count, info.blocked_until),
           last_failure |-> now]]

\* clear_failures lines 128-129.
clear_failuresMut(ip) == [AUTH_FAILURES EXCEPT ![ip].count = 0]
clear_failures(ip) == [AUTH_FAILURES EXCEPT ![ip] = NoRec]

\* do_login line 557: is the request turned away because of a block?
TurnedAwayMut(ip) == is_ip_blocked(ip) /\ AUTH_FAILURES[ip].count >= LongBlockAfter
TurnedAway(ip) == is_ip_blocked(ip)

\* do_login lines 548-582; password is empty, right or wrong.  A successful
\* login creates a session (line 565) and sets its token as the cookie (567-573).
DoLogin(ip, password) ==
    /\ IF TurnedAway(ip)
         THEN /\ authResp' = [ip |-> ip, res |-> "blocked", had |-> AUTH_FAILURES[ip].count, cookie |-> FALSE]
              /\ UNCHANGED <<AUTH_FAILURES, nSessions>>
         ELSE IF password = ""
           THEN /\ authResp' = [ip |-> ip, res |-> "required", had |-> AUTH_FAILURES[ip].count, cookie |-> FALSE]
                /\ UNCHANGED <<AUTH_FAILURES, nSessions>>
         ELSE IF password = "right"
           THEN /\ nSessions < MaxLogins
                /\ AUTH_FAILURES' = clear_failures(ip)
                /\ nSessions' = nSessions + 1
                /\ authResp' = [ip |-> ip, res |-> "ok", had |-> AUTH_FAILURES[ip].count, cookie |-> TRUE]
         ELSE /\ AUTH_FAILURES' = record_failure(ip)
              /\ authResp' = [ip |-> ip, res |-> "invalid", had |-> AUTH_FAILURES[ip].count, cookie |-> FALSE]
              /\ UNCHANGED nSessions
    /\ UNCHANGED timeVars
    /\ UNCHANGED nonAuth

\* _cleanup lines 75-84, one of the registered periodic cleanups.
AuthCleanup ==
    LET old_failures == {ip \in IPs : /\ AUTH_FAILURES[ip] # NoRec
                                      /\ AUTH_FAILURES[ip].blocked_until < now
                                      /\ now - AUTH_FAILURES[ip].last_failure > FailureMaxAge} IN
    /\ AUTH_FAILURES' = [ip \in IPs |-> IF ip \in old_failures THEN NoRec ELSE AUTH_FAILURES[ip]]
    /\ authResp' = [NoAuthResp EXCEPT !.res = "cleanup"]
    /\ UNCHANGED nSessions
    /\ UNCHANGED timeVars
    /\ UNCHANGED nonAuth

\* Time passes, by the length of a short or of a long block.
AuthTick(d) ==
    /\ nTicks < MaxAuthTicks
    /\ now' = now + d
    /\ nTicks' = nTicks + 1
    /\ authResp' = NoAuthResp
    /\ UNCHANGED <<AUTH_FAILURES, nSessions>>
    /\ UNCHANGED nonAuth

AuthNext ==
    \/ \E ip \in IPs, password \in {"", "right", "wrong"} : DoLogin(ip, password)
    \/ AuthCleanup
    \/ \E d \in {ShortBlock, LongBlock} : AuthTick(d)

(***************************************************************************)
(* Playback position persistence (web/routes/remote.py): _handle_state,    *)
(* _save_position_from_state and the final flush of _cleanup_connection,   *)
(* followed for one token that no remote is paired to (the fan-out loop of *)
(* _handle_state sends nothing).  currentTime and duration are counted in  *)
(* hundredths of a second, the wall clock in seconds.                      *)
(***************************************************************************)
_POSITION_SAVE_INTERVAL == 5

NoSave == -1
NoPos == -1
\* profile_id of the followed token's session.
SessionProfile == CHOOSE p \in Profiles : TRUE
NoPosState == [videoId |-> "absent", currentTime |-> 0, duration |-> 0]

\* State dicts of state messages.  videoId "": no video id; currentTime 0
\* stands for 0 and for a missing key, duration 0 for an unknown one.
PosState(v, c, d) == [videoId |-> v, currentTime |-> c, duration |-> d]
PosStateVals ==
    { PosState("", 0, 0),
      PosState("v1", 0, 30000),
      PosState("v1", 504, 30000),
      PosState("v1", 27000, 30000), PosState("v1", 29500, 30000),
      PosState("v2", 0, 0), PosState("v2", 500, 0), PosState("v2", 1006, 0),
      PosState("v2", 300, 2000), PosState("v2", 1500, 2000),
      PosState("v2", 95000, 100000), PosState("v2", 96000, 100000) }

PosInit ==
    /\ posProfile = NoEntry
    /\ posState = NoPosState
    /\ posLast = NoSave
    /\ positions = [v \in Vids |-> NoPos]
    /\ saved = <<>>
    /\ lastRoutine = NoSave
    /\ nPosMsgs = 0

\* _save_position_from_state line 259: the near-end test.
near_endMut(st) ==
    st.duration > 0 /\ st.currentTime * 100 > 95 * st.duration
near_end(st) ==
    /\ st.duration > 0
    /\ \/ st.currentTime > st.duration - 30 * 100
       \/ st.currentTime * 100 > 95 * st.duration

\* round(current_time, 1).  A tie (a time ending in exactly 5 hundredths)
\* depends on the float's binary expansion; no state of PosStateVals has one.
round1(current_time) == ((current_time + 5) \div 10) * 10

\* Lines 251-254: time.time() is the epoch time, so with no entry for the
\* token (last_save = 0) the interval has always passed.
Throttled(last_save) == last_save # NoSave /\ now - last_save < _POSITION_SAVE_INTERVAL

\* One profiles_db.save_position call, with the state it was made for.
SaveCall(kind, st, position) ==
    [kind |-> kind, profile_id |-> posProfile, video_id |-> st.videoId,
     position |-> position, st |-> st]

\* _save_position_from_state(token, state) with _last_position_save.get(token)
\* = last_save: the entry afterwards and the save_position calls made.
_save_position_from_state(kind, st, last_save) ==
    IF posProfile = NoEntry
      THEN [last |-> last_save, calls |-> <<>>]
    ELSE IF st.videoId = "" \/ st.currentTime = 0
      THEN [last |-> last_save, calls |-> <<>>]
    ELSE IF Throttled(last_save)
      THEN [last |-> last_save, calls |-> <<>>]
    ELSE [last |-> now,
          calls |-> IF near_end(st) THEN <<SaveCall(kind, st, 0)>>
                    ELSE IF st.currentTime > 5 * 100
                           THEN <<SaveCall(kind, st, round1(st.currentTime))>>
                           ELSE <<>>]

\* profiles_db.save_position: the position of the profile's video is replaced.
RECURSIVE save_position(_, _)
save_position(db, calls) ==
    IF calls = <<>> THEN db
    ELSE LET c == Head(calls) IN
         save_position([db EXCEPT ![c.video_id] = c.position], Tail(calls))

\* _last_position_save.pop(token, None) of lines 223 and 107.
PoppedMut(last_save) == last_save
Popped(last_save) == NoSave

\* websocket_endpoint lines 56-68: the token's session connects.
PosConnect ==
    /\ posProfile = NoEntry
    /\ posProfile' = SessionProfile
    /\ saved' = <<>>
    /\ UNCHANGED <<posState, posLast, positions, lastRoutine, nPosMsgs>>
    /\ UNCHANGED timeVars
    /\ UNCHANGED nonPos

\* _handle_state lines 218-229: a video change flushes the old state, the new
\* state is stored and saved under the throttle.
PosHandleState(st) ==
    /\ posProfile # NoEntry
    /\ nPosMsgs < MaxPosMsgs
    /\ nPosMsgs' = nPosMsgs + 1
    /\ LET old_state == posState
           changed == /\ old_state # NoPosState
                      /\ old_state.videoId # ""
                      /\ old_state.videoId # st.videoId
           flush == IF changed
                      THEN _save_position_from_state("flush", old_state, Popped(posLast))
                      ELSE [last |-> posLast, calls |-> <<>>]
           kind == IF changed THEN "changed"
                   ELSE IF old_state.videoId = st.videoId THEN "routine" ELSE "started"
           save == _save_position_from_state(kind, st, flush.last)
       IN /\ posState' = st
          /\ posLast' = save.last
          /\ saved' = flush.calls \o save.calls
          /\ positions' = save_position(positions, flush.calls \o save.calls)
          /\ lastRoutine' = IF \E i \in DOMAIN save.calls : save.calls[i].kind = "routine"
                              THEN now ELSE lastRoutine
    /\ UNCHANGED posProfile
    /\ UNCHANGED timeVars
    /\ UNCHANGED nonPos

\* _cleanup_connection lines 104-114 for the registered connection: the final
\* unthrottled save, then the token's entries are popped.
PosDisconnect ==
    /\ posProfile # NoEntry
    /\ LET final == IF posState # NoPosState /\ posState # PosState("", 0, 0)
                      THEN _save_position_from_state("final", posState, Popped(posLast))
                      ELSE [last |-> posLast, calls |-> <<>>]
       IN /\ saved' = final.calls
          /\ positions' = save_position(positions, final.calls)
    /\ posProfile' = NoEntry
    /\ posState' = NoPosState
    /\ posLast' = NoSave
    /\ lastRoutine' = NoSave
    /\ UNCHANGED nPosMsgs
    /\ UNCHANGED timeVars
    /\ UNCHANGED nonPos

\* Time passes.
PosTick(d) ==
    /\ nTicks < MaxPosTicks
    /\ now' = now + d
    /\ nTicks' = nTicks + 1
    /\ saved' = <<>>
    /\ UNCHANGED <<posProfile, posState, posLast, positions, lastRoutine, nPosMsgs>>
    /\ UNCHANGED nonPos

PosNext ==
    \/ PosConnect
    \/ \E st \in PosStateVals : PosHandleState(st)
    \/ PosDisconnect
    \/ \E d \in {1, _POSITION_SAVE_INTERVAL - 1} : PosTick(d)

(***************************************************************************)
(* Range proxy (web/app.py): _proxy_range_request and its stream_body      *)
(* generator, for requests handled concurrently.                           *)
(***************************************************************************)
Reqs == {"r1", "r2"}        \* two requests handled concurrently
UpStatuses == {200, 204, 206, 304, 400, 403, 416, 503}
NoRange == ""
NoUp == [status |-> 0, failed |-> FALSE, left |-> 0]
NoOut == [status |-> 0, error |-> 0, chunks |-> 0]

PxInit ==
    /\ pxPc = [r \in Reqs |-> "idle"]
    /\ pxRange = [r \in Reqs |-> NoRange]
    /\ client = [r \in Reqs |-> "none"]
    /\ upstream = [r \in Reqs |-> "none"]
    /\ pxUp = [r \in Reqs |-> NoUp]
    /\ pxOut = [r \in Reqs |-> NoOut]

\* Lines 1000-1008: the Range header sent upstream.
upstream_headers(range_header, filesize) ==
    IF range_header # NoRange THEN range_header
    ELSE IF filesize # 0 THEN "bytes=0-" ELSE NoRange

\* Line 1046: the status of the streamed response.
statusMut(upstream_status_code) == upstream_status_code
status(upstream_status_code) == IF upstream_status_code = 206 THEN 206 ELSE 200

\* Lines 1000-1013: build the headers, open the client, await client.send.
ProxyRequest(r, range_header, filesize) ==
    /\ pxPc[r] = "idle"
    /\ pxRange' = [pxRange EXCEPT ![r] = upstream_headers(range_header, filesize)]
    /\ client' = [client EXCEPT ![r] = "open"]
    /\ pxPc' = [pxPc EXCEPT ![r] = "sending"]
    /\ UNCHANGED <<upstream, pxUp, pxOut>>
    /\ UNCHANGED nonPx

\* Lines 1017-1020: client.send raised; the client is closed, HTTPException 502.
ProxySendFailed(r) ==
    /\ pxPc[r] = "sending"
    /\ pxUp' = [pxUp EXCEPT ![r] = [NoUp EXCEPT !.failed = TRUE]]
    /\ client' = [client EXCEPT ![r] = "closed"]
    /\ pxOut' = [pxOut EXCEPT ![r] = [NoOut EXCEPT !.error = 502]]
    /\ pxPc' = [pxPc EXCEPT ![r] = "done"]
    /\ UNCHANGED <<pxRange, upstream>>
    /\ UNCHANGED nonPx

\* Lines 1013-1056: upstream answered with `code` and a body of n chunks.  At 400
\* or above both are closed and HTTPException(code) is raised; otherwise the
\* StreamingResponse is returned around a stream_body() that has not started.
ProxyAnswered(r, code, n) ==
    /\ pxPc[r] = "sending"
    /\ pxUp' = [pxUp EXCEPT ![r] = [status |-> code, failed |-> FALSE, left |-> n]]
    /\ IF code >= 400
         THEN /\ upstream' = [upstream EXCEPT ![r] = "closed"]
              /\ client' = [client EXCEPT ![r] = "closed"]
              /\ pxOut' = [pxOut EXCEPT ![r] = [NoOut EXCEPT !.error = code]]
              /\ pxPc' = [pxPc EXCEPT ![r] = "done"]
         ELSE /\ upstream' = [upstream EXCEPT ![r] = "open"]
              /\ pxOut' = [pxOut EXCEPT ![r] = [NoOut EXCEPT !.status = status(code)]]
              /\ pxPc' = [pxPc EXCEPT ![r] = "returned"]
              /\ UNCHANGED client
    /\ UNCHANGED pxRange
    /\ UNCHANGED nonPx

\* Lines 1052-1054: the finally block of stream_body.
Release(r) ==
    /\ upstream' = [upstream EXCEPT ![r] = "closed"]
    /\ client' = [client EXCEPT ![r] = "closed"]

\* Lines 1048-1051: the response asks stream_body for a chunk (the first request
\* starts the generator, which enters its try block) and gets one.
StreamChunk(r) ==
    /\ pxPc[r] \in {"returned", "streaming"}
    /\ pxUp[r].left > 0
    /\ pxUp' = [pxUp EXCEPT ![r].left = @ - 1]
    /\ pxOut' = [pxOut EXCEPT ![r].chunks = @ + 1]
    /\ pxPc' = [pxPc EXCEPT ![r] = "streaming"]
    /\ UNCHANGED <<pxRange, client, upstream>>
    /\ UNCHANGED nonPx

\* Lines 1050-1054: the response asks for a chunk and upstream has no more: the
\* loop ends and the finally block runs.
StreamEnd(r) ==
    /\ pxPc[r] \in {"returned", "streaming"}
    /\ pxUp[r].left = 0
    /\ Release(r)
    /\ pxPc' = [pxPc EXCEPT ![r] = "done"]
    /\ UNCHANGED <<pxRange, pxUp, pxOut>>
    /\ UNCHANGED nonPx

\* The client goes away while stream_body is suspended at its yield (line 1051):
\* the generator is closed there, which runs the finally block.
ClientGoneMidBody(r) ==
    /\ pxPc[r] = "streaming"
    /\ Release(r)
    /\ pxPc' = [pxPc EXCEPT ![r] = "done"]
    /\ UNCHANGED <<pxRange, pxUp, pxOut>>
    /\ UNCHANGED nonPx

\* The client goes away before the response has asked for the first chunk:
\* stream_body() was called (line 1056) but never started, and a generator that
\* never entered its try block runs no finally block when it is closed or
\* dropped.
ClientGoneBeforeBody(r) ==
    /\ pxPc[r] = "returned"
    /\ pxPc' = [pxPc EXCEPT ![r] = "done"]
    /\ UNCHANGED <<pxRange, client, upstream, pxUp, pxOut>>
    /\ UNCHANGED nonPx

PxNext ==
    \/ \E r \in Reqs, h \in {NoRange, "bytes=100-199"}, f \in {0, 1000} : ProxyRequest(r, h, f)
    \/ \E r \in Reqs : ProxySendFailed(r)
    \/ \E r \in Reqs, code \in UpStatuses, n \in 0..MaxChunks : ProxyAnswered(r, code, n)
    \/ \E r \in Reqs : StreamChunk(r)
    \/ \E r \in Reqs : StreamEnd(r)
    \/ \E r \in Reqs : ClientGoneMidBody(r)
    \/ \E r \in Reqs : ClientGoneBeforeBody(r)

(***************************************************************************)
(* DASH manifest synthesis (web/app.py): get_dash_manifest.                *)
(***************************************************************************)
_DASH_CACHE_TTL == 18000

Fmt(id, protocol, vcodec, acodec, height, ext, tbr) ==
    [format_id |-> id, protocol |-> protocol, vcodec |-> vcodec, acodec |-> acodec,
     height |-> height, ext |-> ext, tbr |-> tbr]
NoFmt == Fmt("none", "", "none", "none", 0, "", 0)

\* Formats a resolver answer is made of: two H.264 tracks of one height and one
\* bitrate, an AV1 track of that height, a lower H.264 track, two m4a audio
\* tracks of one bitrate, an mp4 audio track, and an HLS rendition.
F136 == Fmt("136", "https", "avc1.4d401f", "none", 720, "mp4", 2000)
F298 == Fmt("298", "https", "avc1.4d4020", "none", 720, "mp4", 2000)
F398 == Fmt("398", "https", "av01.0.05M.08", "none", 720, "mp4", 3000)
F134 == Fmt("134", "https", "avc1.4d401e", "none", 360, "mp4", 500)
F140 == Fmt("140", "https", "none", "mp4a.40.2", 0, "m4a", 128)
F141 == Fmt("141", "https", "none", "mp4a.40.5", 0, "m4a", 128)
F139 == Fmt("139", "https", "none", "mp4a.40.5", 0, "mp4", 256)
F95 == Fmt("95", "m3u8_native", "avc1.64001f", "mp4a.40.2", 720, "mp4", 1500)
FormatPool == {F136, F298, F398, F134, F140, F141, F139, F95}
Heights == {f.height : f \in FormatPool}

\* str.startswith('avc1') on the codec strings of the pool.
startswith_avc1(codec) == codec \in {"avc1.4d401f", "avc1.4d4020", "avc1.4d401e", "avc1.64001f"}

\* Lines 835-854: the video-only and the audio-only formats that are kept.
KeptVideo(fmt, quality) ==
    /\ fmt.protocol = "https"
    /\ fmt.vcodec # "none" /\ fmt.acodec = "none"
    /\ ~(fmt.height < 360 \/ fmt.height > quality)
    /\ fmt.ext \in {"mp4", "mp4a"}
KeptAudio(fmt) ==
    /\ fmt.protocol = "https"
    /\ fmt.acodec # "none" /\ fmt.vcodec = "none"
    /\ fmt.ext \in {"m4a", "mp4"}

\* Lines 859-873: the loop that keeps one format per height.
RECURSIVE best_video(_, _)
best_video(video_fmts, best) ==
    IF video_fmts = <<>> THEN best
    ELSE LET fmt == Head(video_fmts)
             existing == best[fmt.height]
             take == IF existing = NoFmt THEN TRUE
                     ELSE IF startswith_avc1(fmt.vcodec) /\ ~startswith_avc1(existing.vcodec) THEN TRUE
                     ELSE IF startswith_avc1(fmt.vcodec) = startswith_avc1(existing.vcodec)
                            THEN fmt.tbr > existing.tbr
                     ELSE FALSE
         IN best_video(Tail(video_fmts), IF take THEN [best EXCEPT ![fmt.height] = fmt] ELSE best)

\* Line 874: sorted(best_video.values(), key=height).
RECURSIVE SortedByHeight(_, _)
SortedByHeight(best, hs) ==
    IF hs = {} THEN <<>>
    ELSE LET h == CHOOSE x \in hs : \A y \in hs : x <= y IN
         (IF best[h] = NoFmt THEN <<>> ELSE <<best[h]>>) \o SortedByHeight(best, hs \ {h})

\* Lines 877-884: the loop that keeps one audio format.
RECURSIVE best_audio(_, _)
best_audio(audio_fmts, best) ==
    IF audio_fmts = <<>> THEN best
    ELSE LET fmt == Head(audio_fmts)
             take == IF best = NoFmt THEN TRUE
                     ELSE IF fmt.ext = "m4a" /\ best.ext # "m4a" THEN TRUE
                     ELSE IF fmt.ext = best.ext /\ fmt.tbr > best.tbr THEN TRUE
                     ELSE FALSE
         IN best_audio(Tail(audio_fmts), IF take THEN fmt ELSE best)

\* Lines 831-885: what get_dash_manifest selects from a resolver answer.
Selection(fs, quality) ==
    [video |-> SortedByHeight(best_video(SelectSeq(fs, LAMBDA f : KeptVideo(f, quality)),
                                         [h \in Heights |-> NoFmt]), Heights),
     audio |-> best_audio(SelectSeq(fs, LAMBDA f : KeptAudio(f)), NoFmt)]
NoSel == [video |-> <<>>, audio |-> NoFmt]

\* Lines 892-968: the manifest text, by what it says: per representation the
\* format id, codec, height, bandwidth and whether it has a SegmentBase.
Rep(fmt, probed, default) ==
    [id |-> fmt.format_id, codecs |-> IF fmt.vcodec # "none" THEN fmt.vcodec ELSE fmt.acodec,
     height |-> fmt.height, bandwidth |-> IF fmt.tbr * 1000 = 0 THEN default ELSE fmt.tbr * 1000,
     segment_base |-> probed]
Mpd(sel, probed) ==
    [video |-> [i \in 1..Len(sel.video) |-> Rep(sel.video[i], probed, 1000000)],
     audio |-> Rep(sel.audio, probed, 128000)]

DashReqs == {"a", "b"}
Qualities == {240, 360, 1080}
NoText == Mpd(NoSel, FALSE)
NoMpd == [mpd |-> NoText, created |-> -1]
NoDashLoc == [vid |-> NoVid, quality |-> 0, sel |-> NoSel]
NoDashResp == [req |-> "none", vid |-> NoVid, status |-> 0, mpd |-> NoText, cached |-> FALSE]

DashInit ==
    /\ selected = NoSel
    /\ _dash_cache = [v \in Vids |-> NoMpd]
    /\ dPc = [r \in DashReqs |-> "idle"]
    /\ dLoc = [r \in DashReqs |-> NoDashLoc]
    /\ dashResp = NoDashResp
    /\ builds = {}
    /\ nDash = 0

\* Line 820: is there a cache entry younger than the TTL?
Fresh(cached) == cached # NoMpd /\ now - cached.created < _DASH_CACHE_TTL

\* Lines 818-826: the cache check; on a miss the resolver is called in a worker
\* thread.
DashRequest(r, video_id, quality) ==
    /\ dPc[r] = "idle"
    /\ nDash < MaxDashReqs
    /\ nDash' = nDash + 1
    /\ IF Fresh(_dash_cache[video_id])
         THEN /\ dashResp' = [req |-> r, vid |-> video_id, status |-> 200,
                              mpd |-> _dash_cache[video_id].mpd, cached |-> TRUE]
              /\ UNCHANGED <<dPc, dLoc>>
         ELSE /\ dPc' = [dPc EXCEPT ![r] = "resolving"]
              /\ dLoc' = [dLoc EXCEPT ![r] = [NoDashLoc EXCEPT !.vid = video_id, !.quality = quality]]
              /\ dashResp' = NoDashResp
    /\ UNCHANGED <<formats, selected, _dash_cache, builds>>
    /\ UNCHANGED timeVars
    /\ UNCHANGED nonDash

\* Lines 826-887: extract_info raised (500), or it returned and the formats are
\* selected: 404 when no video or no audio format is left, else the probes are
\* started.
DashResolved(r, ok) ==
    /\ dPc[r] = "resolving"
    /\ LET sel == Selection(formats, dLoc[r].quality) IN
       IF ~ok \/ sel.video = <<>> \/ sel.audio = NoFmt
         THEN /\ dashResp' = [NoDashResp EXCEPT !.req = r, !.vid = dLoc[r].vid,
                                                !.status = IF ok THEN 404 ELSE 500]
              /\ dPc' = [dPc EXCEPT ![r] = "idle"]
              /\ dLoc' = [dLoc EXCEPT ![r] = NoDashLoc]
         ELSE /\ dPc' = [dPc EXCEPT ![r] = "probing"]
              /\ dLoc' = [dLoc EXCEPT ![r].sel = sel]
              /\ dashResp' = NoDashResp
    /\ UNCHANGED <<formats, selected, _dash_cache, builds, nDash>>
    /\ UNCHANGED timeVars
    /\ UNCHANGED nonDash

\* Lines 887-975: the probes are back; the manifest is built, cached and returned.
DashProbed(r, probed) ==
    /\ dPc[r] = "probing"
    /\ LET mpd == Mpd(dLoc[r].sel, probed) IN
        /\ _dash_cache' = [_dash_cache EXCEPT ![dLoc[r].vid] = [mpd |-> mpd, created |-> now]]
        /\ dashResp' = [req |-> r, vid |-> dLoc[r].vid, status |-> 200, mpd |-> mpd, cached |-> FALSE]
        /\ builds' = builds \cup {[vid |-> dLoc[r].vid, mpd |-> mpd, at |-> now]}
    /\ dPc' = [dPc EXCEPT ![r] = "idle"]
    /\ dLoc' = [dLoc EXCEPT ![r] = NoDashLoc]
    /\ UNCHANGED <<formats, selected, nDash>>
    /\ UNCHANGED timeVars
    /\ UNCHANGED nonDash

DashTick(d) ==
    /\ nTicks < MaxDashTicks
    /\ now' = now + d
    /\ nTicks' = nTicks + 1
    /\ dashResp' = NoDashResp
    /\ UNCHANGED <<formats, selected, _dash_cache, dPc, dLoc, builds, nDash>>
    /\ UNCHANGED nonDash

DashNext ==
    \/ \E r \in DashReqs, v \in Vids, q \in Qualities : DashRequest(r, v, q)
    \/ \E r \in DashReqs, ok \in BOOLEAN : DashResolved(r, ok)
    \/ \E r \in DashReqs, probed \in BOOLEAN : DashProbed(r, probed)
    \/ \E d \in {1, _DASH_CACHE_TTL - 1} : DashTick(d)

\* A resolver answer: up to MaxFmts different formats of the pool, in some order.
Answers == {fs \in UNION {[1..n -> FormatPool] : n \in 0..MaxFmts} :
               \A i, j \in 1..Len(fs) : i # j => fs[i] # fs[j]}

\* Lines 831-885 applied to the resolver's answer; line 856 gives up when no
\* video or no audio format is kept.
SelectFormats(quality) ==
    /\ selected = NoSel
    /\ Selection(formats, quality).video # <<>>
    /\ Selection(formats, quality).audio # NoFmt
    /\ selected' = Selection(formats, quality)
    /\ UNCHANGED <<formats, _dash_cache, dPc, dLoc, dashResp, builds, nDash>>
    /\ UNCHANGED timeVars
    /\ UNCHANGED nonDash

SelNext == \E q \in Qualities : SelectFormats(q)

(***************************************************************************)
(* Profile store and access gates (web/auth.py, web/routes/profiles.py).   *)
(* The tables are those of profiles_db; a request carries its session      *)
(* cookie (NoTok: none).  Passwords are sequences of characters.           *)
(***************************************************************************)
Names == {"ann", "bob"}
NoRow == [name |-> "", is_admin |-> FALSE]
Passwords == {<<>>, <<"a", "b", "c">>, <<"a", "b", "c", "d">>}
Cookies == Tokens \cup {NoTok}
NoProfResp == [op |-> "none", status |-> 0, detail |-> "", pid |-> NoProfile, cookie |-> NoTok]
Answer(op, code, detail) == [NoProfResp EXCEPT !.op = op, !.status = code, !.detail = detail]

ProfInit ==
    /\ profiles = [p \in Profiles |-> NoRow]
    /\ app_password = <<>>
    /\ pSessions = [t \in Tokens |-> NoSession]
    /\ pResp = NoProfResp

\* profiles_db.list_profiles(), profiles_db.get_session(token).
list_profiles == {p \in Profiles : profiles[p] # NoRow}
db_get_session(cookie) == IF cookie = NoTok THEN NoSession ELSE pSessions[cookie]

\* auth.py verify_session lines 145-153.
verify_session(cookie) == app_password = <<>> \/ db_get_session(cookie) # NoSession

\* auth.py require_auth lines 156-162: TRUE, or 401 is raised.
require_authMut(cookie) == TRUE
require_auth(cookie) == app_password = <<>> \/ verify_session(cookie)

\* auth.py get_profile_id lines 205-212.
get_profile_id(cookie) ==
    IF db_get_session(cookie) # NoSession THEN db_get_session(cookie) ELSE NoProfile

\* auth.py get_session lines 132-142: the token of the request's session, or of
\* a session created for it.  profiles_db.create_session() makes a new token.
NewToken == CHOOSE t \in Tokens : pSessions[t] = NoSession
get_session(cookie) == IF db_get_session(cookie) # NoSession THEN cookie ELSE NewToken
CanGetSession(cookie) == db_get_session(cookie) # NoSession \/ \E t \in Tokens : pSessions[t] = NoSession

\* auth.py require_profile lines 215-221, as the dependency of a profile-scoped
\* endpoint.
ProfEndpoint(cookie) ==
    /\ pResp' = IF ~require_auth(cookie) THEN Answer("endpoint", 401, "Unauthorized")
                ELSE IF get_profile_id(cookie) = NoProfile
                  THEN Answer("endpoint", 403, "No profile selected")
                ELSE [Answer("endpoint", 200, "") EXCEPT !.pid = get_profile_id(cookie)]
    /\ UNCHANGED <<profiles, app_password, pSessions>>
    /\ UNCHANGED nonProf

\* profiles.py _require_admin lines 78-84: "" when the check passes.
_require_admin(cookie) ==
    IF get_profile_id(cookie) = NoProfile THEN "No profile selected"
    ELSE IF ~profiles[get_profile_id(cookie)].is_admin THEN "Admin required"
    ELSE ""

\* profiles_db.create_profile: a new row under the next free id; the first
\* profile is the admin.  A taken name raises (UNIQUE).
NewProfile == CHOOSE p \in Profiles : profiles[p] = NoRow /\ \A q \in Profiles : profiles[q] = NoRow => p <= q
NameTaken(name) == \E p \in Profiles : profiles[p] # NoRow /\ profiles[p].name = name

\* profiles.py create_profile lines 116-138.
ProfCreate(cookie, name, password) ==
    LET is_first_run == list_profiles = {} /\ app_password = <<>>
        inserted == [profiles EXCEPT ![NewProfile] = [name |-> name, is_admin |-> list_profiles = {}]]
    IN
    /\ IF ~require_auth(cookie)
         THEN /\ pResp' = Answer("create", 401, "Unauthorized")
              /\ UNCHANGED <<profiles, app_password, pSessions>>
       ELSE IF list_profiles # {} /\ _require_admin(cookie) # ""
         THEN /\ pResp' = Answer("create", 403, _require_admin(cookie))
              /\ UNCHANGED <<profiles, app_password, pSessions>>
       ELSE IF NameTaken(name)
         THEN /\ pResp' = Answer("create", 409, "Name already taken")
              /\ UNCHANGED <<profiles, app_password, pSessions>>
       ELSE /\ \E p \in Profiles : profiles[p] = NoRow
            /\ profiles' = inserted                                 \* line 125
            /\ IF ~is_first_run
                 THEN /\ pResp' = [Answer("create", 200, "") EXCEPT !.pid = NewProfile]
                      /\ UNCHANGED <<app_password, pSessions>>
               ELSE IF password = <<>> \/ Len(password) < 4           \* line 132
                 THEN /\ pResp' = Answer("create", 400, "Password must be at least 4 characters")
                      /\ UNCHANGED <<app_password, pSessions>>
               ELSE /\ CanGetSession(cookie)
                    /\ app_password' = password
                    /\ pSessions' = [pSessions EXCEPT ![get_session(cookie)] = NewProfile]
                    /\ pResp' = [Answer("create", 200, "") EXCEPT !.pid = NewProfile,
                                                                  !.cookie = get_session(cookie)]
    /\ UNCHANGED nonProf

\* profiles.py boot lines 90-107.
ProfBoot(cookie) ==
    /\ pResp' = IF list_profiles = {} /\ app_password = <<>> THEN Answer("boot", 200, "first-run")
                ELSE IF ~verify_session(cookie) THEN Answer("boot", 200, "login-required")
                ELSE IF get_profile_id(cookie) # NoProfile /\ profiles[get_profile_id(cookie)] # NoRow
                  THEN [Answer("boot", 200, "ready") EXCEPT !.pid = get_profile_id(cookie)]
                ELSE Answer("boot", 200, "profile-select")
    /\ UNCHANGED <<profiles, app_password, pSessions>>
    /\ UNCHANGED nonProf

\* profiles.py select_profile lines 155-173; no profile has a PIN.
ProfSelect(cookie, profile_id) ==
    /\ IF ~require_auth(cookie)
         THEN /\ pResp' = Answer("select", 401, "Unauthorized")
              /\ UNCHANGED pSessions
       ELSE IF profiles[profile_id] = NoRow
         THEN /\ pResp' = Answer("select", 404, "Profile not found")
              /\ UNCHANGED pSessions
       ELSE /\ CanGetSession(cookie)
            /\ pSessions' = [pSessions EXCEPT ![get_session(cookie)] = profile_id]
            /\ pResp' = [Answer("select", 200, "") EXCEPT !.pid = profile_id, !.cookie = get_session(cookie)]
    /\ UNCHANGED <<profiles, app_password>>
    /\ UNCHANGED nonProf

\* auth.py do_login lines 548-582 with the right password from an IP that is not
\* blocked: a session without a profile is created and its token is the cookie.
ProfLogin ==
    /\ app_password # <<>>
    /\ \E t \in Tokens : pSessions[t] = NoSession
    /\ pSessions' = [pSessions EXCEPT ![NewToken] = NoProfile]
    /\ pResp' = [Answer("login", 302, "") EXCEPT !.cookie = NewToken]
    /\ UNCHANGED <<profiles, app_password>>
    /\ UNCHANGED nonProf

\* auth.py logout lines 585-592.
ProfLogout(cookie) ==
    /\ pSessions' = IF cookie # NoTok THEN [pSessions EXCEPT ![cookie] = NoSession] ELSE pSessions
    /\ pResp' = Answer("logout", 302, "")
    /\ UNCHANGED <<profiles, app_password>>
    /\ UNCHANGED nonProf

ProfNext ==
    \/ \E cookie \in Cookies : ProfEndpoint(cookie)
    \/ \E cookie \in Cookies, name \in Names, password \in Passwords : ProfCreate(cookie, name, password)
    \/ \E cookie \in Cookies : ProfBoot(cookie)
    \/ \E cookie \in Cookies, p \in Profiles : ProfSelect(cookie, p)
    \/ ProfLogin
    \/ \E cookie \in Cookies : ProfLogout(cookie)

(***************************************************************************)
(* MP4 box parser (web/app.py): _parse_mp4_boxes, run on byte strings put  *)
(* together from well-formed and malformed box headers.                    *)
(***************************************************************************)
NoKey == -1
NoResult == [init_end |-> NoKey, index_start |-> NoKey, index_end |-> NoKey]
TooBig == 2147483647       \* stands for every 64-bit size of 2^31 - 1 or more

moov == <<109, 111, 111, 118>>
sidx == <<115, 105, 100, 120>>
free == <<102, 114, 101, 101>>

\* struct.unpack('>I', b) and struct.unpack('>Q', b) on byte sequences.
U32(b) == ((b[1] * 256 + b[2]) * 256 + b[3]) * 256 + b[4]
U64(b) == IF U32(SubSeq(b, 1, 4)) # 0 \/ b[5] >= 128 THEN TooBig ELSE U32(SubSeq(b, 5, 8))

\* The bytes of a 32-bit size below 2^24, of a 64-bit size below 2^24, padding.
Bytes32(n) == <<0, (n \div 65536) % 256, (n \div 256) % 256, n % 256>>
Bytes64(n) == <<0, 0, 0, 0>> \o Bytes32(n)
Zeros(k) == [i \in 1..k |-> 0]

Pieces ==
    { Bytes32(8) \o moov,                        \* a box of 8 bytes
      Bytes32(16) \o moov \o Zeros(8),           \* a box of 16 bytes
      Bytes32(8) \o sidx,
      Bytes32(12) \o sidx \o Zeros(4),
      Bytes32(0) \o sidx,                        \* size 0: the rest of the data
      Bytes32(0) \o free \o Zeros(8),
      Bytes32(1) \o sidx \o Bytes64(16),         \* size 1: 64-bit size follows
      Bytes32(1) \o free \o Bytes64(4),          \* 64-bit size below 8
      Bytes32(1) \o moov \o Zeros(4),            \* 64-bit size cut off
      Bytes32(4) \o free,                        \* size below 8
      Bytes32(24) \o moov,                       \* box longer than what follows
      <<0, 0, 0>> }                              \* a header cut off

RECURSIVE Concat(_)
Concat(ps) == IF ps = <<>> THEN <<>> ELSE Head(ps) \o Concat(Tail(ps))
ByteStrings == {Concat(ps) : ps \in UNION {[1..n -> Pieces] : n \in 0..MaxPieces}}

Mp4Init ==
    /\ offset = 0
    /\ boxes = <<>>
    /\ result = NoResult

\* _parse_mp4_boxes line 780: the loop condition.
InLoop(off, d) == off < Len(d) - 8

\* Lines 781-786: the size of the box at `off` after the two adjustments.
BoxSize(off, d) ==
    LET size == U32(SubSeq(d, off + 1, off + 4)) IN
    IF size = 1 /\ off + 16 <= Len(d) THEN U64(SubSeq(d, off + 9, off + 16))
    ELSE IF size = 0 THEN Len(d) - off
    ELSE size
BoxType(off, d) == SubSeq(d, off + 5, off + 8)

\* Line 787: the size that ends the loop.
TooSmallMut(size) == size < 0
TooSmall(size) == size < 8

\* Lines 780-790: one iteration of the first loop, or its end.
Mp4Step ==
    /\ mp4Pc = "loop"
    /\ IF ~InLoop(offset, mp4Data) \/ TooSmall(BoxSize(offset, mp4Data))
         THEN /\ mp4Pc' = "collect"
              /\ UNCHANGED <<offset, boxes>>
         ELSE /\ boxes' = Append(boxes, [type |-> BoxType(offset, mp4Data), offset |-> offset,
                                         size |-> BoxSize(offset, mp4Data)])
              /\ offset' = IF offset + BoxSize(offset, mp4Data) >= TooBig THEN TooBig
                           ELSE offset + BoxSize(offset, mp4Data)
              /\ UNCHANGED mp4Pc
    /\ UNCHANGED <<mp4Data, result>>
    /\ UNCHANGED timeVars
    /\ UNCHANGED nonMp4

\* Lines 792-799: the second loop.
RECURSIVE Collect(_, _)
Collect(bs, res) ==
    IF bs = <<>> THEN res
    ELSE LET box == Head(bs)
             end == IF box.offset + box.size >= TooBig THEN TooBig ELSE box.offset + box.size - 1
         IN Collect(Tail(bs),
                    IF box.type = moov THEN [res EXCEPT !.init_end = end]
                    ELSE IF box.type = sidx THEN [res EXCEPT !.index_start = box.offset, !.index_end = end]
                    ELSE res)

Mp4Collect ==
    /\ mp4Pc = "collect"
    /\ result' = Collect(boxes, NoResult)
    /\ mp4Pc' = "done"
    /\ UNCHANGED <<mp4Data, offset, boxes>>
    /\ UNCHANGED timeVars
    /\ UNCHANGED nonMp4

Mp4Next == Mp4Step \/ Mp4Collect

(***************************************************************************)
(* Specifications: one per subsystem, the other subsystems idle.           *)
(***************************************************************************)
DlIdle == DlInit /\ files = {}
InfoIdle == InfoInit /\ ~ydl_info_auth
PairIdle == PairInit
AuthIdle == AuthInit
PosIdle == PosInit
OrdIdle == OrdInit
PxIdle == PxInit
DashIdle == DashInit /\ formats = <<>>
ProfIdle == ProfInit
Mp4Idle == Mp4Init /\ mp4Data = <<>> /\ mp4Pc = "idle"

InitHub == HubInit /\ DlIdle /\ InfoIdle /\ PairIdle /\ AuthIdle /\ PosIdle /\ OrdIdle /\ PxIdle /\ DashIdle /\ ProfIdle /\ Mp4Idle /\ TimeInit
SpecHub == InitHub /\ [][HubNext]_vars
SpecCmd == InitHub /\ [][CmdNext]_vars

InitDl == DlInit /\ HubInit /\ InfoIdle /\ PairIdle /\ AuthIdle /\ PosIdle /\ OrdIdle /\ PxIdle /\ DashIdle /\ ProfIdle /\ Mp4Idle /\ TimeInit
SpecDl == InitDl /\ [][DlNext]_vars
SpecExp == InitDl /\ [][ExpNext]_vars /\ ExpFair

InitInfo == InfoInit /\ HubInit /\ DlIdle /\ PairIdle /\ AuthIdle /\ PosIdle /\ OrdIdle /\ PxIdle /\ DashIdle /\ ProfIdle /\ Mp4Idle /\ TimeInit
SpecInfo == InitInfo /\ [][InfoNext]_vars

InitPair == PairInit /\ HubInit /\ DlIdle /\ InfoIdle /\ AuthIdle /\ PosIdle /\ OrdIdle /\ PxIdle /\ DashIdle /\ ProfIdle /\ Mp4Idle /\ TimeInit
SpecPair == InitPair /\ [][PairNext]_vars
SpecRate == InitPair /\ [][RateNext]_vars

InitAuth == AuthInit /\ HubInit /\ DlIdle /\ InfoIdle /\ PairIdle /\ PosIdle /\ OrdIdle /\ PxIdle /\ DashIdle /\ ProfIdle /\ Mp4Idle /\ TimeInit
SpecAuth == InitAuth /\ [][AuthNext]_vars

InitOrd == HubInit /\ OrdInit /\ DlIdle /\ InfoIdle /\ PairIdle /\ AuthIdle /\ PosIdle /\ PxIdle /\ DashIdle /\ ProfIdle /\ Mp4Idle /\ TimeInit
SpecOrd == InitOrd /\ [][OrdNext]_vars

SpecRepair == InitHub /\ [][RepairNext]_vars

InitPx == PxInit /\ HubInit /\ OrdIdle /\ DlIdle /\ InfoIdle /\ PairIdle /\ AuthIdle /\ PosIdle /\ DashIdle /\ ProfIdle /\ Mp4Idle /\ TimeInit
SpecPx == InitPx /\ [][PxNext]_vars

InitDash == DashInit /\ formats = <<F134, F136, F398, F140>> /\ HubInit /\ OrdIdle /\ PxIdle /\ DlIdle /\ InfoIdle /\ PairIdle /\ AuthIdle /\ PosIdle /\ ProfIdle /\ Mp4Idle /\ TimeInit
SpecDash == InitDash /\ [][DashNext]_vars

InitSel == DashInit /\ formats \in Answers /\ HubInit /\ OrdIdle /\ PxIdle /\ DlIdle /\ InfoIdle /\ PairIdle /\ AuthIdle /\ PosIdle /\ ProfIdle /\ Mp4Idle /\ TimeInit
SpecSel == InitSel /\ [][SelNext]_vars

InitProf == ProfInit /\ HubInit /\ OrdIdle /\ PxIdle /\ DashIdle /\ DlIdle /\ InfoIdle /\ PairIdle /\ AuthIdle /\ PosIdle /\ Mp4Idle /\ TimeInit
SpecProf == InitProf /\ [][ProfNext]_vars

InitMp4 == Mp4Init /\ mp4Data \in ByteStrings /\ mp4Pc = "loop" /\ HubInit /\ OrdIdle /\ PxIdle /\ DashIdle /\ ProfIdle /\ DlIdle /\ InfoIdle /\ PairIdle /\ AuthIdle /\ PosIdle /\ TimeInit
SpecMp4 == InitMp4 /\ [][Mp4Next]_vars /\ WF_vars(Mp4Next)

InitPos == PosInit /\ HubInit /\ DlIdle /\ InfoIdle /\ PairIdle /\ AuthIdle /\ OrdIdle /\ PxIdle /\ DashIdle /\ ProfIdle /\ Mp4Idle /\ TimeInit
SpecPos == InitPos /\ [][PosNext]_vars

(***************************************************************************)
(* Claims about the hub.                                                   *)
(***************************************************************************)
HubTables == <<_connections, _device_states, _pairings, _token_to_profile, _token_to_name,
               _last_position_save>>
Notices == {"target_disconnected", "remote_disconnected"}

\* Connection object c ends in this step: its read loop is left and
\* _cleanup_connection starts.
Ends(c) == wsPc[c] \in {"open", "state_fwd"} /\ wsPc'[c] \in {"closed", "cleanup"}

\* C1: when connection A of token T ends while a newer connection B is registered
\* for T, A's _cleanup_connection changes no hub table (T stays mapped to B, T's
\* profile entry, cached state and pairings stay) and sends no
\* target_disconnected / remote_disconnected notice.
C1_ReplacedCleanupIsNoop ==
    [][\A a \in ConnIds :
          (Ends(a) /\ _connections[wsTok[a]] \notin {NoConn, a})
            => /\ HubTables' = HubTables
               /\ wsPc'[a] = "closed"
               /\ \A m \in out' : m.type \notin Notices]_vars

\* A's cleanup has just run while B holds T's registration, T having a cached
\* player state and a pairing as remote.
C1_Witness ==
    \E m \in out :
        /\ m.type = "log_replaced"
        /\ _connections[m.tok] \notin {NoConn, m.by}
        /\ _device_states[m.tok] # NoState
        /\ m.tok \in PairRemotes(_pairings)
        /\ _token_to_profile[m.tok] # NoEntry

\* C2: every pairing relates two tokens whose registered profile ids are equal.
C2_NoCrossProfilePairing ==
    \A i \in 1..Len(_pairings) :
        LET r == _pairings[i][1]
            t == _pairings[i][2]
        IN (_pairings[i] # Tomb /\ _token_to_profile[r] # NoEntry /\ _token_to_profile[t] # NoEntry)
              => _token_to_profile[r] = _token_to_profile[t]

\* A _cleanup_connection of token T's registered connection is suspended at
\* one of its awaited sends.
InCleanup(T) == \E c \in ConnIds : wsPc[c] = "cleanup" /\ wsTok[c] = T

\* T is in none of the hub's tables.
InNoTable(T) ==
    /\ _connections[T] = NoConn
    /\ _device_states[T] = NoState
    /\ _token_to_profile[T] = NoEntry
    /\ T \notin _token_to_name
    /\ T \notin _last_position_save
    /\ T \notin PairRemotes(_pairings) \cup PairTargets(_pairings)

\* C19: genuine disconnect cleanup.  Once the cleanup of the connection
\* registered for T has completed, under any interleaving with the handlers of
\* other connections, and for as long as T has not registered again, T is in
\* no hub table: not in the connections, device states, profile map, name
\* cache or last-save map, and in no pairing as remote or as target.  When the
\* cleanup starts, a connected remote paired to T is sent
\* 'target_disconnected'; when it completes, the connected target T was
\* paired to is sent 'remote_disconnected'.
C19_GenuineDisconnectCleanup ==
    /\ [](\A T \in Tokens : (_connections[T] = NoConn /\ ~InCleanup(T)) => InNoTable(T))
    /\ [][\A c \in ConnIds :
            LET T == wsTok[c] IN
            /\ (Ends(c) /\ _connections[T] = c)
               => LET rs == {r \in Tokens \ {T} :
                               PairGet(_pairings, r) = T /\ _connections[r] # NoConn}
                  IN rs # {} => \E m \in out' : /\ m.type = "target_disconnected"
                                                 /\ m.to \in {_connections[r] : r \in rs}
            /\ (\/ Ends(c) /\ _connections[T] = c /\ wsPc'[c] = "closed"
                \/ wsPc[c] = "cleanup" /\ wsPc'[c] = "closed")
               => LET x == PairGet(_pairings, T)
                  IN (x \notin {NoTok, T} /\ _connections[x] # NoConn)
                       => \E m \in out' : /\ m.type = "remote_disconnected"
                                           /\ m.to = _connections[x]]_vars

PlayOnTracked(v) == resp'.op = "play" /\ resp'.vid = v /\ active_downloads[v] # NoJob

\* Records created for v that were not popped yet; subprocess launches for v.
C3_OneJob ==
    \A v \in Vids : created[v] - expired[v] \in {0, 1} /\ launched[v] <= created[v]

\* C3: at most one download per video id.  A play request for an id with a
\* tracked record (whatever its status) creates no record, starts no task,
\* launches no subprocess and answers the record's current status and progress;
\* at any time at most one record per id is live and every record is launched
\* at most once, so back-to-back play requests for an unseen id give one record
\* and one launch.
C3_OneDownloadPerId ==
    /\ []C3_OneJob
    /\ [][\A v \in Vids :
             PlayOnTracked(v)
               => /\ <<active_downloads, jobs, dlPc, proc, nJobs, created, launched>>'
                       = <<active_downloads, jobs, dlPc, proc, nJobs, created, launched>>
                  /\ resp'.status = jobs[active_downloads[v]].status
                  /\ resp'.progress = jobs[active_downloads[v]].progress]_vars

\* A second play request for an id was answered "finished" from the one record
\* ever created for it, launched once.
C3_Witness ==
    \E v \in Vids :
        /\ resp.op = "play" /\ resp.vid = v /\ resp.status = "finished"
        /\ active_downloads[v] # NoJob
        /\ created[v] = 1 /\ launched[v] = 1 /\ expired[v] = 0

(***************************************************************************)
(* Claims about the extraction cache.                                      *)
(***************************************************************************)
InResolver == {"anon", "auth", "retry"}

\* C4: at most one extraction per video id.  A get_video_info call that was
\* waiting while another call for the same id finished its extraction never
\* invokes the resolver itself, and ends with the outcome that extraction
\* stored.
C4_OneExtractionPerId ==
    /\ \A t \in Thr : tOver[t] # "no" => tPc[t] \notin InResolver
    /\ infoRet.over # "no" => infoRet.res = infoRet.over

\* C5 as claimed: a call waiting for an uncached id while another call is in
\* the resolver for a different id does not have to wait: it can go on into
\* its own resolver call.
C5_DifferentIdsInParallel ==
    \A t \in Thr, u \in Thr :
        (tPc[t] \in InResolver /\ tPc[u] = "wait" /\ tLoc[u].vid # tLoc[t].vid
            /\ ~CacheHit(tLoc[u].vid))
          => ENABLED InfoAcquire(u)

\* C5 as amended: extractions are serialized by the one global lock.  At most
\* one get_video_info call, whatever its id, is inside a resolver call at a
\* time, and it is the holder of _info_lock.
C5_ExtractionsSerialized ==
    /\ Cardinality({t \in Thr : tPc[t] \in InResolver}) <= 1
    /\ \A t \in Thr : tPc[t] \in InResolver <=> _info_lock = t

\* One call is in the resolver for an id while a call for a different, uncached
\* id waits for the lock.
C5_Witness ==
    \E t \in Thr, u \in Thr :
        /\ tPc[t] \in InResolver /\ _info_lock = t
        /\ tPc[u] = "wait" /\ tLoc[u].vid # tLoc[t].vid
        /\ _info_cache[tLoc[u].vid] = NoCacheEntry

\* A call in mode 'auto', with the authenticated resolver at hand, leaves the
\* lock queue for its first resolver call.
AutoStarts(t) ==
    /\ tPc[t] = "wait" /\ tPc'[t] \in {"anon", "auth"}
    /\ tLoc[t].mode = "auto" /\ ydl_info_auth

\* C11: age-restriction stickiness.  In mode 'auto' with the authenticated
\* resolver available, once an anonymous attempt for a video id has failed
\* age-restricted, an extraction for that id starts with the authenticated
\* resolver (no anonymous attempt) while the id's cache entry is there,
\* whether the retry that followed the failure succeeded or failed.
C11_AgeRestrictionSticky ==
    [][\A t \in Thr :
         (/\ AutoStarts(t)
          /\ tLoc[t].vid \in ageFailed
          /\ _info_cache[tLoc[t].vid].kind # "none")
         => tPc'[t] = "auth"]_vars

\* C12: the age-restricted flag persists across cache refreshes.  Once the
\* entry of a video id carries the flag, every entry written for that id
\* later, after a successful or a failed refresh, carries it too.
C12_FlagPersists ==
    [][\A v \in Vids :
         (_info_cache[v].age_restricted /\ _info_cache'[v] # _info_cache[v])
         => _info_cache'[v].age_restricted]_vars

\* C13: global throttle cooldown (mode 'auto', authenticated resolver
\* available).  When the anonymous attempt failed throttled, the cooldown is
\* armed for 10 minutes whatever the retry with cookies gives; while the
\* cooldown is active every 'auto' extraction starts with the authenticated
\* resolver, and once it has elapsed an extraction of an unflagged id starts
\* with the anonymous resolver.
C13_ThrottleCooldown ==
    [][\A t \in Thr :
         /\ (tPc[t] = "retry" /\ tLoc[t].err = "throttle" /\ tPc'[t] = "idle")
            => _throttled_until' >= tLoc[t].now + _THROTTLE_COOLDOWN
         /\ (AutoStarts(t) /\ now < _throttled_until) => tPc'[t] = "auth"
         /\ (AutoStarts(t) /\ now >= _throttled_until
               /\ ~_info_cache[tLoc[t].vid].age_restricted)
            => tPc'[t] = "anon"]_vars

\* C14: mode 'off' never uses cookies.  A call with cookie_mode 'off' is never
\* inside the authenticated resolver, whatever the flag, the cooldown or the
\* class of the error, and when its anonymous attempt fails the call raises
\* the very error the resolver gave (the one written to the cache).
C14_OffNeverUsesCookies ==
    /\ [](\A t \in Thr : tLoc[t].mode = "off" => tPc[t] \notin {"auth", "retry"})
    /\ [][\A t \in Thr :
            (tPc[t] = "anon" /\ tLoc[t].mode = "off" /\ tPc'[t] # "anon")
            => /\ tPc'[t] = "idle"
               /\ infoRet'.thr = t /\ infoRet'.mode = "off"
               /\ infoRet'.res = _info_cache'[tLoc[t].vid].val
               /\ (infoRet'.res \in ErrKinds <=> _info_cache'[tLoc[t].vid].kind = "error")]_vars

\* A call in mode 'off' has just raised an age-restriction error of the
\* anonymous resolver although cookies are at hand and the cooldown is active.
C14_Witness ==
    /\ infoRet.thr # NoThr /\ infoRet.mode = "off" /\ infoRet.res = "age"
    /\ ydl_info_auth
    /\ now < _throttled_until
    /\ _info_cache[infoRet.vid].kind = "error" /\ _info_cache[infoRet.vid].created = now

\* C15: info cache TTLs.  Every extraction outcome is written to the cache;
\* from the moment an extraction has ended, and for less than 5 hours after a
\* success or 5 minutes after a failure, a request for the id is answered from
\* the cache without a resolver call (here: the request made right when the
\* extraction ended); a request that finds the entry past its TTL goes to the
\* resolver again.
C15_CacheTTLs ==
    [][\A t \in Thr, v \in Vids :
         /\ (tPc[t] \in InResolver /\ tLoc[t].vid = v /\ tPc'[t] = "idle")
            => /\ _info_cache'[v].val = infoRet'.res
               /\ CacheHit(v)'
         /\ (tPc[t] = "wait" /\ tPc'[t] # "wait" /\ ~CacheHit(tLoc[t].vid))
            => tPc'[t] \in {"anon", "auth"}]_vars

(***************************************************************************)
(* Claims about device pairing.                                            *)
(***************************************************************************)
\* The step is a pair_status call for code c.
Polls(c) == pairResp'.op = "status" /\ pairResp'.code = c

\* C6 as claimed: once a code is approved, the status call that follows the
\* approval returns 'approved'.
C6_ApprovedThenDelivered ==
    [][\A c \in Codes :
          (Polls(c) /\ PAIRING_REQUESTS[c].status = "approved")
            => pairResp'.status = "approved"]_vars

\* C6 as amended: a status call for a requested code that is pending and not
\* older than 5 minutes returns 'pending'; for an approved code, the first
\* status call returns 'approved' and delivers the session if it is made no
\* later than 5 minutes after the code's creation, and 'expired' otherwise; at
\* most one status call per code returns 'approved', every status call after
\* it returns 'expired'; a status call made more than 5 minutes after the
\* creation of a code returns 'expired'.
C6_PairingLifecycle ==
    [][\A c \in Codes :
          Polls(c) =>
            LET req == PAIRING_REQUESTS[c]
                late == now > req.created_at + 300
            IN /\ (req.status = "pending" /\ ~late) => pairResp'.status = "pending"
               /\ (req.status = "approved" /\ ~late)
                     => pairResp'.status = "approved" /\ c \notin delivered /\ c \in delivered'
               /\ (req.status = "approved" /\ late) => pairResp'.status = "expired"
               /\ pairResp'.status = "approved" => req.status = "approved" /\ c \notin delivered
               /\ c \in delivered => pairResp'.status = "expired"
               /\ (req.status \in {"pending", "none"} /\ late) => pairResp'.status = "expired"]_vars

\* A code was approved and delivered by one status call, and a later status call
\* has just answered 'expired'.
C6_Witness ==
    \E c \in Codes :
        /\ pairResp.op = "status" /\ pairResp.code = c /\ pairResp.status = "expired"
        /\ c \in delivered
        /\ c \in pairSessions

\* C7: a request that left the pairing table without its token having been
\* delivered as a cookie has no session left in the session store.
C7_NoOrphanedSessions ==
    \A c \in Codes :
        (c <= nCodes /\ PAIRING_REQUESTS[c] = NoReq /\ c \notin delivered) => c \notin pairSessions

\* C8: for every client IP, six pair_request calls that succeeded never lie
\* within one span shorter than 10 minutes; a call is rejected with 429 exactly
\* when five calls of its IP succeeded within the 10 minutes before it, and a
\* rejected call creates no pairing request and no session.
C8_Window ==
    \A ip \in IPs : \A i \in 1..Len(pairOk[ip]) :
        i + 5 <= Len(pairOk[ip]) => pairOk[ip][i + 5] - pairOk[ip][i] >= 600

C8_PairingRateLimit ==
    /\ []C8_Window
    /\ [][\A ip \in IPs :
             (pairResp'.op = "request" /\ pairResp'.ip = ip) =>
               LET recent == {i \in 1..Len(pairOk[ip]) : now - pairOk[ip][i] < 600} IN
               /\ pairResp'.status = "429" <=> Cardinality(recent) >= 5
               /\ pairResp'.status = "429" =>
                     <<PAIRING_REQUESTS, pairSessions, nCodes, pairOk>>'
                       = <<PAIRING_REQUESTS, pairSessions, nCodes, pairOk>>
               /\ pairResp'.status = "ok" =>
                     /\ nCodes' = nCodes + 1
                     /\ PAIRING_REQUESTS'[nCodes'].status = "pending"
                     /\ nCodes' \in pairSessions']_vars

\* A sixth call of an IP within 10 minutes was just rejected, the five codes
\* before it having been created.
C8_Witness ==
    \E ip \in IPs :
        /\ pairResp.op = "request" /\ pairResp.ip = ip /\ pairResp.status = "429"
        /\ Len(pairOk[ip]) = 5
        /\ now > 0

(***************************************************************************)
(* Claims about the login lockout.                                         *)
(***************************************************************************)
\* The step records a login failure of ip.
Fails(ip) == authResp'.res = "invalid" /\ authResp'.ip = ip

C9_FewFailuresNoBlock ==
    \A ip \in IPs : AUTH_FAILURES[ip].count < 5 => AUTH_FAILURES[ip].blocked_until <= now

\* C9: for one IP, the 5th to 9th recorded failure each set a block that ends
\* 1 hour after that failure, the 10th and every later one a block that ends
\* 24 hours after it, and an IP with fewer than 5 recorded failures is not
\* blocked.
C9_LockoutThresholds ==
    /\ []C9_FewFailuresNoBlock
    /\ [][\A ip \in IPs :
             Fails(ip) =>
               LET n == AUTH_FAILURES[ip].count + 1 IN
               /\ AUTH_FAILURES'[ip].count = n
               /\ (n >= 5 /\ n <= 9) => AUTH_FAILURES'[ip].blocked_until = now + 3600
               /\ n >= 10 => AUTH_FAILURES'[ip].blocked_until = now + 86400]_vars

\* The 10th failure of an IP was just recorded, after its 1-hour blocks ran out.
C9_Witness ==
    \E ip \in IPs :
        /\ authResp.res = "invalid" /\ authResp.ip = ip
        /\ AUTH_FAILURES[ip].count = 10
        /\ AUTH_FAILURES[ip].blocked_until = now + 86400

\* C10: a successful login from an IP removes that IP's failure record, count
\* and block, so that its next failure is its first; the records of all other
\* IPs stay as they were.
C10_SuccessClearsOwnRecord ==
    [][\A ip \in IPs :
          /\ (authResp'.res = "ok" /\ authResp'.ip = ip)
                => /\ AUTH_FAILURES'[ip] = NoRec
                   /\ \A other \in IPs \ {ip} : AUTH_FAILURES'[other] = AUTH_FAILURES[other]
          /\ (Fails(ip) /\ authResp.res = "ok" /\ authResp.ip = ip)
                => AUTH_FAILURES'[ip].count = 1 /\ AUTH_FAILURES'[ip].blocked_until <= now]_vars

\* An IP with several failures on record has just logged in, while another IP
\* is blocked.
C10_Witness ==
    \E ip \in IPs, other \in IPs :
        /\ authResp.res = "ok" /\ authResp.ip = ip /\ authResp.had >= 5
        /\ AUTH_FAILURES[ip] = NoRec
        /\ other # ip /\ is_ip_blocked(other)

(***************************************************************************)
(* Claims about playback position persistence.                             *)
(***************************************************************************)
\* C16: position save near the end.  Every position the hub persists for a
\* state with duration > 0 whose currentTime is less than 30 seconds from the
\* end or above 95% of the duration is 0; for any other state the persisted
\* position is the current time rounded to a tenth of a second, and it is
\* persisted only when the current time is greater than 5 seconds.
C16_NearEndPolicy ==
    \A i \in DOMAIN saved :
        LET st == saved[i].st
            remaining == st.duration - st.currentTime
        IN IF st.duration > 0 /\ (remaining < 30 * 100 \/ st.currentTime * 100 > 95 * st.duration)
             THEN saved[i].position = 0
             ELSE /\ st.currentTime > 5 * 100
                  /\ saved[i].position % 10 = 0
                  /\ saved[i].position - st.currentTime \in -5..5

\* The state currentTime = 295, duration = 300 has been persisted as 0.
C16_Witness ==
    \E i \in DOMAIN saved :
        saved[i].st = PosState("v1", 29500, 30000) /\ saved[i].position = 0

\* C17: position persistence throttle.  Within one connection of the token,
\* a routine save (one caused by a state message with the video id of the
\* state before it) is persisted no sooner than 5 seconds after the routine
\* save before it.
C17_RoutineSavesThrottled ==
    [][(/\ nPosMsgs' # nPosMsgs
        /\ \E i \in DOMAIN saved' : saved'[i].kind = "routine")
       => (lastRoutine = NoSave \/ now - lastRoutine >= _POSITION_SAVE_INTERVAL)]_vars

\* A state message whose video id differs from the non-empty video id of the
\* token's previous state is handled.
VideoChanged ==
    /\ nPosMsgs' # nPosMsgs
    /\ posState # NoPosState /\ posState.videoId # ""
    /\ posState'.videoId # posState.videoId

C21_InOrder ==
    \A i, j \in 1..Len(forwarded) :
        i < j /\ forwarded[i].by = forwarded[j].by => forwarded[i].no < forwarded[j].no

\* A message leaves a connection's queue only while no handler of that
\* connection is suspended, and it is the oldest one waiting.
C21_ReadsWhenIdle ==
    \A c \in ConnIds :
        Len(inbox'[c]) < Len(inbox[c]) =>
            /\ wsPc[c] = "open"
            /\ inbox'[c] = Tail(inbox[c])

\* C21: per-connection ordering.  The hub finishes handling one message of a
\* connection before it reads that connection's next message, so that the
\* commands a remote sent over one connection are forwarded in the order they
\* were received, none of them twice.
C21_PerConnectionOrdering == []C21_InOrder /\ [][C21_ReadsWhenIdle]_vars

\* Two commands of one connection were forwarded.
C21_Witness ==
    /\ Len(forwarded) = 2
    /\ forwarded[1].by = forwarded[2].by
    /\ forwarded[1].no = 1 /\ forwarded[2].no = 2

\* C22: WebSocket admission.  A connection whose cookie is missing, names no
\* stored session, or names a session with no profile selected is closed with
\* code 4001, changes no hub table, and never gets to the read loop.
C22_Admission ==
    [][\A c \in ConnIds :
          /\ \A k \in Tokens \cup {NoTok} :
                 /\ WsConnect(c, k)
                 /\ (k = NoTok \/ sessions[k] = NoSession \/ sessions[k] = NoProfile)
                 => /\ out' = {[by |-> c, tok |-> k, to |-> c, type |-> "close4001", st |-> NoState]}
                    /\ wsPc'[c] = "closed"
                    /\ HubTables' = HubTables
          /\ wsPc[c] = "closed" => wsPc'[c] = "closed"]_vars

\* A device whose session lost its profile was turned away while another
\* device was registered.
C22_Witness ==
    /\ \E o \in out : o.type = "close4001" /\ o.tok # NoTok /\ sessions[o.tok] = NoProfile
                      /\ wsPc[o.by] = "closed"
    /\ \E t \in Tokens : _connections[t] # NoConn

\* The entries of the pairing table for remote r.
EntriesOf(p, r) == {i \in 1..Len(p) : p[i][1] = r}

\* _handle_pair found no connected device of the remote's profile with the
\* requested id: the table stays as it is and the remote is sent an error.
C23_NotFound ==
    \A c \in ConnIds, d \in DeviceIds :
        HubPair(c, d) /\ PairMatch(wsTok[c], d) = NoTok =>
            /\ _pairings' = _pairings
            /\ wsPc'[c] = "open"
            /\ _connections[wsTok[c]] # NoConn =>
                   out' = {Send(c, _connections[wsTok[c]], "error", NoState)}

\* _handle_pair found Y while the remote is paired to a connected X # Y: X is
\* sent 'remote_disconnected' and the handler goes on to record the pairing.
C23_OldTargetTold ==
    \A c \in ConnIds, d \in DeviceIds :
        LET X == PairGet(_pairings, wsTok[c])
            Y == PairMatch(wsTok[c], d)
        IN HubPair(c, d) /\ Y # NoTok /\ X # NoTok /\ X # Y /\ _connections[X] # NoConn =>
               /\ out' = {Send(c, _connections[X], "remote_disconnected", NoState)}
               /\ wsPc'[c] = "pair_unpaired"
               /\ wsLoc'[c].tgt = Y /\ wsLoc'[c].old = X

\* The handler's next step records the pairing: the table maps the remote to Y
\* and to nothing else, and the remote's connection, if there is one, is sent
\* 'paired' with the state cached for Y (none when nothing is cached).
C23_Recorded ==
    \A c \in ConnIds :
        wsPc[c] = "pair_unpaired" /\ wsPc'[c] # "pair_unpaired" =>
            LET Y == wsLoc[c].tgt IN
            /\ PairGet(_pairings', wsTok[c]) = Y
            /\ Cardinality(EntriesOf(_pairings', wsTok[c])) = 1
            /\ _connections[wsTok[c]] # NoConn =>
                   /\ out' = {Send(c, _connections[wsTok[c]], "paired", _device_states[Y])}
                   /\ wsPc'[c] = "pair_notified"

\* The handler's last step, after the remote was sent 'paired': Y is sent
\* 'remote_connected'.
C23_NewTargetTold ==
    \A c \in ConnIds :
        wsPc[c] = "pair_notified" /\ wsLoc[c].old # NoTok /\ wsPc'[c] = "open" =>
            \E o \in out' : /\ o.type = "remote_connected"
                            /\ wsTok[o.to] = wsLoc[c].tgt

\* C23: re-pairing.  When a remote paired to target X successfully pairs to a
\* different target Y, X is sent 'remote_disconnected', the pairing table then
\* maps the remote to Y only, the remote is sent 'paired' carrying Y's cached
\* state when there is one, and Y is sent 'remote_connected'; a pair request
\* whose device id matches no connection of the remote's profile leaves the
\* pairing table unchanged and is answered with an error.
C23_RePairing ==
    [][C23_NotFound /\ C23_OldTargetTold /\ C23_Recorded /\ C23_NewTargetTold]_vars

\* Every 'state' message a _handle_state sends goes to the connection of a
\* remote whose pairing names the sender's token as target at that moment.
C24_OnlyPairedRemotes ==
    \A o \in out' :
        o.type = "state" =>
            \E r \in Tokens : o.to = _connections[r] /\ PairGet(_pairings, r) = o.tok

\* When the handler of a state message is over, every remote that was connected
\* and paired to the sender when the message arrived, and still is, has been
\* sent the state.
C24_AllPairedRemotes ==
    \A c \in ConnIds :
        wsPc[c] = "state_fwd" /\ wsPc'[c] # "state_fwd" =>
            \A r \in wsLoc[c].owed :
                _connections[r] # NoConn /\ PairGet(_pairings, r) = wsTok[c] => r \in wsLoc[c].sent

\* C24: state fan-out.  A state message from token T is forwarded to exactly
\* the connected remotes whose pairing currently names T as target, and to no
\* other connection.
C24_StateFanout == [][C24_OnlyPairedRemotes /\ C24_AllPairedRemotes]_vars

(***************************************************************************)
(* Claims about the range proxy.                                           *)
(***************************************************************************)
\* C25: range proxy status mapping.  The client-visible status is 206 if and
\* only if upstream answered 206, and 200 for every other upstream status below
\* 400; when upstream answers 400 or above, or the connection fails, the proxy
\* raises an error and no chunk of the upstream body reaches the client.
C25_StatusMapping ==
    \A r \in Reqs :
        LET up == pxUp[r]
            o == pxOut[r]
        IN /\ o.status = 206 <=> up.status = 206
           /\ up.status # 0 /\ up.status < 400 /\ up.status # 206 => o.status = 200
           /\ up.status >= 400 \/ up.failed => o.error # 0 /\ o.status = 0 /\ o.chunks = 0
           /\ o.chunks > 0 => o.status \in {200, 206} /\ o.error = 0

\* One request relayed a 206 with body chunks, another one was refused upstream.
C25_Witness ==
    \E r, q \in Reqs :
        /\ pxUp[r].status = 206 /\ pxOut[r].status = 206 /\ pxOut[r].chunks > 0
        /\ pxUp[q].status = 403 /\ pxOut[q].error = 403 /\ pxPc[q] = "done"

\* C26: range proxy resource release.  When a request is over, on whichever
\* path (connection failure, upstream status 400 or above, body fully streamed,
\* client gone in the middle of the body, client gone before the first chunk
\* was requested), the HTTP client and the upstream response it opened are
\* closed.
C26_ReleasedOnEveryPath ==
    \A r \in Reqs :
        pxPc[r] = "done" => client[r] = "closed" /\ upstream[r] # "open"

\* C27: DASH selection.  For every resolver answer, the format selected for a
\* height is an avc1 one when an avc1 format of that height was offered, and no
\* offered format of its codec family and height has a higher bitrate; and the
\* selected set (one format per height, and the audio format) is the same for
\* every ordering of the same formats, also when two formats of one height and
\* codec family have the same bitrate.
Reorderings(fs) ==
    {other \in [1..Len(fs) -> {fs[i] : i \in 1..Len(fs)}] :
        \A i, j \in 1..Len(fs) : i # j => other[i] # other[j]}
C27_PerHeightChoice ==
    \A q \in Qualities : selected = Selection(formats, q) =>
        \A i \in 1..Len(formats), k \in 1..Len(selected.video) :
            LET fmt == formats[i]
                pick == selected.video[k]
            IN KeptVideo(fmt, q) /\ fmt.height = pick.height =>
                /\ startswith_avc1(fmt.vcodec) => startswith_avc1(pick.vcodec)
                /\ startswith_avc1(fmt.vcodec) = startswith_avc1(pick.vcodec) => pick.tbr >= fmt.tbr
C27_SameForEveryOrdering ==
    \A q \in Qualities : selected = Selection(formats, q) =>
        \A other \in Reorderings(formats) : Selection(other, q) = selected
C27_OrderIndependent ==
    selected # NoSel => C27_PerHeightChoice /\ C27_SameForEveryOrdering

\* C28: manifest cache.  A request for a video id of which a manifest was built
\* less than 5 hours ago is answered, whatever quality it asks for, with the text
\* of that build and without a call of the resolver; a request for an id with no
\* build younger than 5 hours starts a fresh build.
C28_ManifestCache ==
    [][\A r \in DashReqs, v \in Vids, q \in Qualities :
         DashRequest(r, v, q) =>
            LET recent == {b \in builds : b.vid = v /\ now - b.at < _DASH_CACHE_TTL} IN
            IF recent # {}
              THEN /\ dashResp'.status = 200 /\ dashResp'.req = r
                   /\ \A b \in recent : dashResp'.mpd = b.mpd
                   /\ dPc'[r] = "idle"
              ELSE dPc'[r] = "resolving"]_vars

\* C29: cancellation marks the job cancelled.  When cancel_download returns for
\* an id whose record is in the job table, the record's status is 'cancelled',
\* and from then on the status stays 'cancelled', which is what every progress
\* poll reads, for as long as the record is in the table, whatever the
\* background download task does in between.
C29_MarkedOnReturn ==
    \A v \in Vids :
        resp'.op = "cancel" /\ resp'.vid = v /\ active_downloads[v] # NoJob
            => jobs'[active_downloads[v]].status = "cancelled"
C29_StaysCancelled ==
    \A v \in Vids :
        /\ active_downloads[v] # NoJob
        /\ jobs[active_downloads[v]].status = "cancelled"
        /\ active_downloads'[v] = active_downloads[v]
        => /\ jobs'[active_downloads[v]].status = "cancelled"
           /\ Progress(v) => resp'.status = "cancelled"
C29_CancelledUntilExpiry == [][C29_MarkedOnReturn /\ C29_StaysCancelled]_vars

\* C30: terminal job records self-expire.  A record whose status is finished or
\* error stays in the job table with that status while the 60 seconds of its
\* task's sleep last, and a progress poll returns that status; the record leaves
\* the table only once the 60 seconds are over; every record that is in the
\* table is eventually removed; and a play request for an id without a record
\* reports 'ready' or starts a new job.
Terminal(v) ==
    /\ active_downloads[v] # NoJob
    /\ jobs[active_downloads[v]].status \in {"finished", "error"}
C30_PolledAndRemoved ==
    \A v \in Vids :
        LET r == active_downloads[v] IN
        /\ Terminal(v) /\ Progress(v) => resp'.status = jobs[r].status
        /\ Terminal(v) /\ dlLeft[r] > 0 => active_downloads'[v] = r
        /\ r # NoJob /\ active_downloads'[v] # r => active_downloads'[v] = NoJob /\ dlLeft[r] = 0
        /\ r = NoJob /\ Play(v) =>
              \/ resp'.status = "ready" /\ active_downloads'[v] = NoJob
              \/ resp'.status = "downloading" /\ active_downloads'[v] # NoJob
C30_KeepsStatus ==
    \A v \in Vids :
        Terminal(v) /\ dlLeft[active_downloads[v]] > 0
            => jobs'[active_downloads[v]].status = jobs[active_downloads[v]].status
C30_EventuallyRemoved ==
    \A v \in Vids : (active_downloads[v] # NoJob) ~> (active_downloads[v] = NoJob)
C30_KeepsStatusUnlessCancelled ==
    \A v \in Vids :
        Terminal(v) /\ dlLeft[active_downloads[v]] > 0
            => \/ jobs'[active_downloads[v]].status = jobs[active_downloads[v]].status
               \/ /\ resp'.op = "cancel" /\ resp'.vid = v
                  /\ jobs'[active_downloads[v]].status = "cancelled"
C34_BlockedCannotLogin ==
    [][\A ip \in IPs, password \in {"", "right", "wrong"} :
          is_ip_blocked(ip) /\ DoLogin(ip, password) =>
              /\ nSessions' = nSessions
              /\ ~authResp'.cookie /\ authResp'.res = "blocked"
              /\ AUTH_FAILURES'[ip] = AUTH_FAILURES[ip]]_vars

\* An IP that is blocked has just been turned away, after another login has
\* created a session.
C34_Witness ==
    \E ip \in IPs :
        /\ is_ip_blocked(ip)
        /\ authResp.ip = ip /\ authResp.res = "blocked"
        /\ nSessions > 0

\* C31: two independent gates.  With an app password set, a profile-scoped
\* endpoint answers 401 to a request without a valid session, 403 'No profile
\* selected' to a request whose session is valid but bound to no profile, and
\* accepts the request, with the session's profile, only when the session is
\* valid and bound to a profile.
C31_TwoGates ==
    [][\A cookie \in Cookies :
          app_password # <<>> /\ ProfEndpoint(cookie) =>
              LET valid == cookie # NoTok /\ pSessions[cookie] # NoSession
                  bound == valid /\ pSessions[cookie] # NoProfile
              IN /\ ~valid => pResp'.status = 401
                 /\ valid /\ ~bound => pResp'.status = 403 /\ pResp'.detail = "No profile selected"
                 /\ bound => pResp'.status = 200 /\ pResp'.pid = pSessions[cookie]
                 /\ pResp'.status = 200 => bound]_vars

\* With the password set, one session is bound to a profile, another one is
\* valid without a profile and has just been answered 403.
C31_Witness ==
    /\ app_password # <<>>
    /\ \E t, u \in Tokens : pSessions[t] \in Profiles /\ pSessions[u] = NoProfile
    /\ pResp.op = "endpoint" /\ pResp.status = 403

\* C39: first-run profile creation is all-or-nothing.  A create_profile request
\* made when there is no profile and no app password, and rejected with 400
\* because its password is missing or shorter than 4 characters, leaves the
\* store as it was: no profile created, no password set, no session bound.
C39_FirstRunAllOrNothing ==
    [][\A cookie \in Cookies, name \in Names, password \in Passwords :
          /\ list_profiles = {} /\ app_password = <<>>
          /\ ProfCreate(cookie, name, password)
          /\ pResp'.status = 400
          => profiles' = profiles /\ app_password' = app_password /\ pSessions' = pSessions]_vars

\* C32: pairing status transitions.  The status of a pairing request changes
\* only from 'pending' to 'approved' or from 'pending' to 'denied', by an approve
\* or deny made before the request expired; approve or deny on a request that is
\* already approved or denied is rejected with 400, on an expired or unknown code
\* with 404, and both leave the tables as they are; a session token is delivered
\* as a cookie only by a poll of an unexpired approved request, and at most once.
C32_OnlyFromPending ==
    \A c \in Codes :
        LET req == PAIRING_REQUESTS[c] IN
        req # NoReq /\ PAIRING_REQUESTS'[c] # NoReq /\ PAIRING_REQUESTS'[c].status # req.status
            => /\ req.status = "pending" /\ ~Expired(req)
               /\ \/ PairApprove(c) /\ PAIRING_REQUESTS'[c].status = "approved"
                  \/ PairDeny(c) /\ PAIRING_REQUESTS'[c].status = "denied"
C32_Rejections ==
    \A c \in Codes :
        LET req == PAIRING_REQUESTS[c] IN
        PairApprove(c) \/ PairDeny(c) =>
            /\ req = NoReq \/ Expired(req)
                 => pairResp'.status = "404" /\ UNCHANGED <<PAIRING_REQUESTS, pairSessions, delivered>>
            /\ req # NoReq /\ ~Expired(req) /\ req.status \in {"approved", "denied"}
                 => pairResp'.status = "400" /\ UNCHANGED <<PAIRING_REQUESTS, pairSessions, delivered>>
C32_DeliveredOnce ==
    delivered' # delivered =>
        \E c \in Codes :
            /\ c \notin delivered /\ delivered' = delivered \cup {c}
            /\ PairStatus(c)
            /\ PAIRING_REQUESTS[c].status = "approved" /\ ~Expired(PAIRING_REQUESTS[c])
            /\ c \in pairSessions
C32_StatusTransitions == [][C32_OnlyFromPending /\ C32_Rejections /\ C32_DeliveredOnce]_vars

\* An approve of a request that had been denied has just been rejected with
\* 400: the request is still denied, its session is gone, nothing was delivered.
C32_Witness ==
    /\ pairResp.op = "approve" /\ pairResp.status = "400"
    /\ PAIRING_REQUESTS[pairResp.code].status = "denied"
    /\ pairResp.code \notin pairSessions \cup delivered

\* C33: the MP4 box parser terminates on every byte string.  Each iteration of
\* the first loop either stops, which it does when the size after the size = 1
\* and size = 0 adjustments is below 8, or advances the offset by at least 8;
\* the recorded box offsets are strictly increasing; the loop ends once the
\* offset has passed the fetched data; the parser returns; and a result that has
\* index_start also has index_end, with index_start <= index_end.
C33_Advances ==
    mp4Pc = "loop" /\ mp4Pc' = "loop" => offset' >= offset + 8 /\ Len(boxes') = Len(boxes) + 1
C33_Stops ==
    mp4Pc = "loop" /\ (offset >= Len(mp4Data) \/ (InLoop(offset, mp4Data) /\ BoxSize(offset, mp4Data) < 8))
        => mp4Pc' = "collect" /\ boxes' = boxes
C33_Increasing ==
    \A i, j \in 1..Len(boxes) : i < j => boxes[i].offset < boxes[j].offset
C33_IndexRange ==
    result.index_start # NoKey => result.index_end # NoKey /\ result.index_start <= result.index_end
C33_ParserTerminates ==
    /\ [][C33_Advances /\ C33_Stops]_vars
    /\ [](C33_Increasing /\ C33_IndexRange)
    /\ <>(mp4Pc = "done")

\* The parser has returned after a sidx box and a moov box whose size took the
\* offset past the data.
C33_Witness ==
    /\ mp4Pc = "done"
    /\ Len(boxes) = 2 /\ boxes[1].type = sidx /\ boxes[2].type = moov
    /\ offset > Len(mp4Data)
    /\ result.index_start = 0 /\ result.index_end = boxes[2].offset - 1
    /\ result.init_end >= Len(mp4Data)

\* C40: the MP4 box parser records every box that sequential parsing reaches
\* and whose 8-byte header lies completely inside the data, also a box whose
\* header is the last 8 bytes of the data; a moov or sidx box in that place
\* gives init_end, or index_start and index_end, in the result.
RECURSIVE Reached(_, _)
Reached(off, d) ==
    IF off + 8 > Len(d) THEN {}
    ELSE IF BoxSize(off, d) < 8 THEN {}
    ELSE {off} \cup (IF off + BoxSize(off, d) >= TooBig THEN {} ELSE Reached(off + BoxSize(off, d), d))
C40_EveryBoxRecorded ==
    mp4Pc = "done" =>
        /\ {boxes[i].offset : i \in 1..Len(boxes)} = Reached(0, mp4Data)
        /\ \A off \in Reached(0, mp4Data) :
              /\ BoxType(off, mp4Data) = moov => result.init_end # NoKey
              /\ BoxType(off, mp4Data) = sidx => result.index_start # NoKey /\ result.index_end # NoKey

\* C36: no self-pairing.  No reachable hub state holds a pairing whose remote
\* token is its target token, and a pair message that names the sender's own
\* device id is answered with an error and records nothing.
C36_NoSelfPair ==
    \A i \in 1..Len(_pairings) : _pairings[i] # Tomb => _pairings[i][1] # _pairings[i][2]
C36_OwnIdRefused ==
    \A c \in ConnIds :
        HubPair(c, _device_id_from_token(wsTok[c]))
            => /\ _pairings' = _pairings
               /\ \E m \in out' : m.type = "error"
C36_NoSelfPairing == []C36_NoSelfPair /\ [][C36_OwnIdRefused]_vars

\* C38: a cached failure does not cross cookie modes.  When a get_video_info
\* call with cookie_mode 'off' has raised an error and cached it (here: an
\* age-restriction or throttling error, on which 'auto' turns to cookies), a call with
\* cookie_mode 'auto' for the same video id, made less than 5 minutes later
\* while an authenticated resolver is at hand (here: the very next step),
\* goes on to an extraction attempt instead of raising the cached error.
C38_AutoAfterOffAttempts ==
    [][\A t \in Thr :
         (/\ infoRet.thr # NoThr /\ infoRet.mode = "off" /\ infoRet.res \in {"age", "throttle"}
          /\ _info_cache[infoRet.vid].kind = "error"
          /\ now - _info_cache[infoRet.vid].created < _NEGATIVE_CACHE_TTL
          /\ ydl_info_auth
          /\ InfoCall(t, infoRet.vid, "auto"))
         => tPc'[t] = "wait" /\ infoRet' = NoRet]_vars

\* C37: cancel stops the work.  Once cancel_download for a video id has
\* returned, having marked the job of that id cancelled, no subprocess of the
\* job is running, the job starts none later, also when the cancel came while
\* the job was still 'starting' and had no process handle, and the job never
\* reaches status 'finished'.
CancelReturned(j) ==
    /\ resp.op = "cancel"
    /\ active_downloads[resp.vid] = j
    /\ jobs[j].status = "cancelled"
Working(j) == proc[j] = "running" \/ jobs[j].status = "finished"
C37_CancelStopsWork ==
    \A j \in JobIds : [](CancelReturned(j) => [](~Working(j)))

\* C35: hub table consistency.  In every reachable state, whatever the
\* interleaving of connects, reconnects under the same token (an older
\* connection of the token may stay open and keep sending), messages and
\* disconnects, every token that has a cached player state, a last-save
\* timestamp or a pairing as remote also has a registered connection and a
\* profile entry.  States in which the token's own cleanup is suspended at one
\* of its sends are left out.
C35_HubTablesConsistent ==
    \A T \in Tokens :
        (/\ ~InCleanup(T)
         /\ \/ _device_states[T] # NoState
            \/ T \in _last_position_save
            \/ T \in PairRemotes(_pairings))
        => _connections[T] # NoConn /\ _token_to_profile[T] # NoEntry

====
